---- MODULE Spec2Model ----
(***************************************************************************)
(* A model of the pauli validator monitor (github.com/tharun/pauli):       *)
(* the slot scheduler and its event generator, the monitor's tick loop and *)
(* job fan-out, the bounded job channel of the worker pool, and the Beacon *)
(* client's GET / POST request loops.                                      *)
(*                                                                         *)
(* Twelve specifications share the module:                                 *)
(*   SpecSched  Scheduler.NextEvents called with arbitrary slots and       *)
(*              finality responses;                                        *)
(*   Spec       the running monitor: clock, tick loop, fan-out, job        *)
(*              channel, cancellation of the root context;                 *)
(*   SpecHttp   one Beacon client operation (doRequest/doRequestWithBody); *)
(*   SpecBackoff one Backoff (NextDelay, Wait, Reset);                     *)
(*   SpecPool   the worker pool, its producer and consumer, Monitor.Stop;  *)
(*   SpecPoolLive SpecPool with the fairness of the Go scheduler;          *)
(*   SpecStopLive the pool stopped, then WorkerPool.Drain, with fairness;  *)
(*   SpecResults the running pool with jobs that fail;                     *)
(*   SpecResultsLive SpecResults with the fairness of the Go scheduler;    *)
(*   SpecJobs   Monitor.Process, job after job, over the store's tables;   *)
(*   SpecStore  the Save functions of the repository;                      *)
(*   SpecClock  Monitor.Start and WaitForSlotInterval on a clock of        *)
(*              seconds, from before genesis on.                           *)
(***************************************************************************)
EXTENDS Integers, Sequences, FiniteSets, TLC

VARIABLES
    \* ---- Scheduler (worker.go: type Scheduler) ----
    genesisTime,      \* s.genesisTime, seconds
    lastEpoch,        \* s.lastEpoch
    lastFinalEpoch,   \* s.lastFinalEpoch
    \* ---- the latest NextEvents call: argument and result ----
    tickSlot,         \* the slot argument
    tickEvents,       \* the returned []ScheduleEvent
    \* ---- SpecSched's record of the calls ----
    finResp,          \* what GetFinalityCheckpoints returned to the latest call
    prevEpoch,        \* s.lastEpoch on entry of the latest call
    prevFinal,        \* s.lastFinalEpoch on entry of the latest call
    monotone,         \* every call so far had a slot above the previous one
    boundaryCount,    \* EPOCH_BOUNDARY events emitted per boundary slot (2 = two or more)
    finalizedCount,   \* EPOCH_FINALIZED events emitted per epoch (2 = two or more)
    rewardsCount      \* REWARDS jobs built from the events, per epoch (2 = two or more)

callVars == <<finResp, prevEpoch, prevFinal, monotone, boundaryCount, finalizedCount,
              rewardsCount>>

schedVars == <<genesisTime, lastEpoch, lastFinalEpoch, tickSlot, tickEvents, callVars>>

VARIABLES
    \* ---- environment ----
    now,              \* the wall clock, seconds
    ctxDone,          \* the root context is cancelled
    \* ---- configuration (config.Config) ----
    intervalSlots,    \* cfg.PollingIntervalSlots
    \* ---- Monitor ----
    started,          \* "new", then what Monitor.Start did: "running" or "failed"
    loopPc,           \* where the runLoop goroutine stands
    targetSlot,       \* WaitForSlotInterval's targetSlot, then runLoop's slot
    waitFrom,         \* the clock when WaitForSlotInterval was called
    tickSlots,        \* SpecClock: the slots WaitForSlotInterval has returned to runLoop
    evIdx,            \* runLoop: index of the event being processed
    vIdx,             \* pollValidators: index of the validator being submitted
    \* ---- WorkerPool ----
    jobChan,          \* the buffered job channel
    liveWorkers,      \* worker goroutines that have not returned
    \* ---- what the tick loop has done so far ----
    startSlot,        \* the current slot when the tick loop was launched
    ticks,            \* WaitForSlotInterval calls so far
    tickJobs,         \* the jobs submitted since the latest NextEvents
    pollAborted,      \* pollValidators of this tick returned through ctx.Done()
    dutiesAt,         \* DUTIES jobs submitted per boundary slot (2 = two or more)
    enqDuties,        \* epochs of the DUTIES jobs submitted
    enqRewards,       \* epochs of the REWARDS jobs submitted
    dutiesAfterRewards, \* a DUTIES job followed the REWARDS job of its epoch
    finalityAhead     \* a finality response exceeded the epoch of its tick's slot

\* the monitor's variables other than the root context
waitVars == <<targetSlot, waitFrom, tickSlots>>

monRest == <<now, intervalSlots, started, loopPc, waitVars, evIdx, vIdx,
             jobChan, liveWorkers, startSlot, ticks, tickJobs, pollAborted, dutiesAt,
             enqDuties, enqRewards, dutiesAfterRewards, finalityAhead>>

monVars == <<ctxDone, monRest>>

VARIABLES
    \* ---- beacon.Client ----
    maxRetries,       \* c.maxRetries
    urlOk,            \* c.baseURL + path parses, so http.NewRequestWithContext succeeds
    \* ---- one operation of the client ----
    reqMethod,        \* "GET" or "POST" ("none" before the first operation)
    reqFunc,          \* the function serving it: "doRequest" or "doRequestWithBody"
    reqPc,            \* where that function stands
    attempt,          \* doRequest's loop variable
    bAttempts,        \* b.attempts of the operation's Backoff
    httpAttempts,     \* calls of c.httpClient.Do made by the operation
    tokens,           \* successful c.limiter.Wait calls of the operation
    lastResp,         \* what the latest c.httpClient.Do returned
    reqResult         \* the error the operation returned ("ok" for nil)

VARIABLES
    \* ---- backoff.Backoff (b.attempts is bAttempts above) ----
    bCfg,             \* b.cfg, delays in milliseconds, the jitter factor in thousandths
    bDelay,           \* what the latest NextDelay returned
    bIndex,           \* b.attempts when the latest NextDelay was called
    bOp,              \* the latest call on the Backoff: "New", "NextDelay", "Wait", "Reset"
    bWaited,          \* what the latest Wait returned ("pending" while it blocks)
    bTimer,           \* the timer of that Wait has fired: its delay has elapsed
    bResetFrom,       \* b.attempts when Reset was last called (-1 before any Reset)
    \* ---- the operation's history ----
    respLog,          \* what each c.httpClient.Do of the operation returned
    waitLog,          \* attempt index and delay of each b.Wait of the operation
    \* ---- Monitor.processStatusJob around its GetValidator ----
    jobPc,            \* "get" while the job's GET runs, "returned" after, else "none"
    saveCalls,        \* m.repo.SaveValidatorSnapshot calls of the job
    snapshotRows      \* snapshot rows the store accepted from the job

bRest == <<bCfg, bDelay, bIndex, bOp, bWaited, bTimer, bResetFrom>>

callLog == <<respLog, waitLog>>

jobVars == <<jobPc, saveCalls, snapshotRows>>

\* the client and its operation, the Backoff aside
reqVars == <<maxRetries, urlOk, reqMethod, reqFunc, reqPc, attempt, httpAttempts,
             tokens, lastResp, reqResult>>

VARIABLES
    \* ---- WorkerPool with its producer and consumer (jobChan is wp.jobChan) ----
    wPc,              \* each worker: "none", "idle", "processing", "sending", "exited"
    wJob,             \* the job a worker holds (0 when none)
    resultChan,       \* wp.resultChan
    jobClosed,        \* close(wp.jobChan) has run
    resultClosed,     \* close(wp.resultChan) has run
    stopPc,           \* Monitor.Stop: "none", "waitWorkers", "waitMonitor", "returned"
    consPc,           \* processResults: "none", "run", "exited"
    prodPc,           \* runLoop: "none", "wait", "select", "submit", "exited"
    nextJob,          \* the next job runLoop will submit (jobs are numbered from 1)
    panicWhy,         \* the run-time panic that ended the process ("none" while it runs)
    stopAfterCancel,  \* Stop was called with the root context already cancelled
    startedAfterCancel, \* a worker received a job with the root context cancelled
    wErr,             \* Process of the job a worker holds returned an error
    wRecv,            \* how many jobs each worker has received
    delivered,        \* per worker: which of its jobs (1st, 2nd, ...) the latest of
                      \* its results that processResults received belongs to
    consErr,          \* the latest result processResults received carried an error
    jobHist           \* per job: how often it was received by a worker, processed,
                      \* sent as a result, received by processResults, dropped

poolHist == <<wErr, wRecv, delivered, consErr, jobHist>>

VARIABLES
    \* ---- WorkerPool.Drain ----
    drainPc,          \* "none", "run" while Drain ranges over wp.resultChan, "returned"
    drained,          \* the results Drain has appended to its slice
    drainFrom,        \* what wp.resultChan held when Drain was called
    drainAlone        \* processResults had returned when Drain was called

drainVars == <<drainPc, drained, drainFrom, drainAlone>>

poolVars == <<wPc, wJob, resultChan, jobClosed, resultClosed, stopPc, consPc, prodPc,
              nextJob, panicWhy, stopAfterCancel, startedAfterCancel, poolHist,
              drainVars>>

httpVars == <<maxRetries, urlOk, reqMethod, reqFunc, reqPc, attempt, bAttempts,
              httpAttempts, tokens, lastResp, reqResult, bRest, callLog, jobVars>>

loopHist == <<tickJobs, pollAborted, dutiesAt, enqDuties, enqRewards,
              dutiesAfterRewards>>

VARIABLES
    \* ---- Monitor.Process: one job at a time ----
    pjPc,             \* "idle", "save" (before the Save call), "penalties", "return"
    pjJob,            \* the job being processed
    pjData,           \* what the fetch returned (<<>> after a failed fetch)
    pjObj,            \* what the job constructed: a snapshot, the duties, the rewards
    pjPens,           \* penalties of processRewardsJob
    pjIdx,            \* index of the next penalty to save
    pjRet,            \* what the latest Process call returned
    pjLog,            \* the lines logResult writes for that result
    pjFetched,        \* the fetch of this job succeeded
    pjFailed,         \* a repository call of this job returned an error
    pjRuns,           \* jobs started so far (the clock of time.Now())
    \* ---- the tables behind storage.Repository ----
    snapTbl,          \* validator_snapshots
    dutyTbl,          \* attestation_duties
    rewardTbl,        \* attestation_rewards
    penTbl,           \* validator_penalties
    \* ---- callers of the repository other than the jobs (SpecStore) ----
    objTs,            \* the Timestamp field of each object of StoreObjects
    saveLog           \* the objects saved so far, in order

tables == <<snapTbl, dutyTbl, rewardTbl, penTbl>>

repoVars == <<objTs, saveLog>>

jobRun == <<pjPc, pjJob, pjData, pjObj, pjPens, pjIdx, pjRet, pjLog, pjFetched, pjFailed,
            pjRuns>>

storeVars == <<jobRun, tables, repoVars>>

VARIABLES
    \* ---- what the Beacon node answers to Monitor.Start ----
    genesisResp,      \* GetGenesis: the genesis time, or an error
    syncResp          \* IsNodeSynced: "synced", "syncing" or "error"

nodeVars == <<genesisResp, syncResp>>

vars == <<schedVars, monVars, httpVars, poolVars, storeVars, nodeVars>>

----------------------------------------------------------------------------
(* Bounds of the model *)

\* slots handed to NextEvents lie in 0..MaxSlot, at most SlotSpread slots away
\* from the first slot of an epoch (all other slots behave like these)
MaxSlot == 65
SlotSpread == 1
\* finality responses report an epoch in 0..MaxFinalized
MaxFinalized == 3
\* the configured validator set has NumValidators indices
NumValidators == 2
\* the worker pool has PoolSize workers
PoolSize == 1
\* polling_interval_slots is drawn from 1..MaxInterval
MaxInterval == 2
\* the clock starts at most StartBefore slots before the first slot of epoch 1
StartBefore == 2
\* the tick loop calls WaitForSlotInterval at most MaxTicks times
MaxTicks == 2
\* the clock runs at most MaxLag slots ahead of the tick loop
MaxLag == 1
\* max_retries is drawn from 1..MaxRetriesCfg
MaxRetriesCfg == 2
\* NextDelay is called while b.attempts < MaxBackoffAttempts
MaxBackoffAttempts == 10
\* jobs runLoop submits to the pool
MaxJobs == 4
\* jobs runLoop submits in the specifications with fairness
MaxLiveJobs == 2

\* Process calls of SpecJobs
MaxJobRuns == 2

\* the clock of SpecClock runs from 0 to MaxClock seconds
MaxClock == 64

\* Save calls of SpecStore
MaxSaves == 3

----------------------------------------------------------------------------
(* Program constants *)

SlotDuration == 12
SlotsPerEpoch == 32

\* GetFinalityCheckpoints returns (checkpoints, err): err # nil, or the epoch
FinalityError == [err |-> TRUE, epoch |-> 0]
FinalityOk(F) == [err |-> FALSE, epoch |-> F]

Min(a, b) == IF a < b THEN a ELSE b

----------------------------------------------------------------------------
(* Scheduler.NextEvents *)

SlotToEpoch(slot) == slot \div SlotsPerEpoch

SlotPollEvent(slot) ==
    [type |-> "SLOT_POLL", slot |-> slot, epoch |-> SlotToEpoch(slot)]

\* the mutant drops the "epoch != s.lastEpoch" half of the test
IsNewBoundaryAnyEpoch(slot, lastEp) == slot % SlotsPerEpoch = 0

IsNewBoundary(slot, lastEp) ==
    slot % SlotsPerEpoch = 0 /\ SlotToEpoch(slot) # lastEp

BoundaryEvent(slot) ==
    [type |-> "EPOCH_BOUNDARY", slot |-> slot, epoch |-> SlotToEpoch(slot) + 1]

\* the mutant tests "!=" where the code tests ">"
FinalityAdvancedNotEqual(F, lastFin) == F # lastFin

FinalityAdvanced(F, lastFin) == F > lastFin

\* the mutant starts the loop at s.lastFinalEpoch instead of s.lastFinalEpoch + 1
FinalizedEventsFromLast(slot, lastFin, F) ==
    [i \in 1..(F - lastFin + 1) |->
        [type |-> "EPOCH_FINALIZED", slot |-> slot, epoch |-> lastFin + i - 1]]

\* for e := s.lastFinalEpoch + 1; e <= finalizedEpoch; e++ { append }
FinalizedEvents(slot, lastFin, F) ==
    [i \in 1..(F - lastFin) |->
        [type |-> "EPOCH_FINALIZED", slot |-> slot, epoch |-> lastFin + i]]

\* the mutant runs the finality block before the epoch-boundary block
NextEventsResultFinalityFirst(slot, lastEp, lastFin, resp) ==
    LET boundary == slot % SlotsPerEpoch = 0 /\ SlotToEpoch(slot) # lastEp
        advanced == ~resp.err /\ resp.epoch > lastFin
    IN  [events |->
            <<[type |-> "SLOT_POLL", slot |-> slot, epoch |-> SlotToEpoch(slot)]>>
            \o (IF advanced
                THEN [i \in 1..(resp.epoch - lastFin) |->
                        [type |-> "EPOCH_FINALIZED", slot |-> slot,
                         epoch |-> lastFin + i]]
                ELSE <<>>)
            \o (IF boundary
                THEN <<[type |-> "EPOCH_BOUNDARY", slot |-> slot,
                        epoch |-> SlotToEpoch(slot) + 1]>>
                ELSE <<>>),
         lastEpoch |-> IF boundary THEN SlotToEpoch(slot) ELSE lastEp,
         lastFinalEpoch |-> IF advanced THEN resp.epoch ELSE lastFin]

\* The whole of NextEvents as a function of its argument, the scheduler's two
\* fields and the finality response: the returned list and the new fields.
\* the mutant stores the zero epoch of a failed lookup
NextEventsResultErrorAsZero(slot, lastEp, lastFin, resp) ==
    LET boundary == IsNewBoundary(slot, lastEp)
        advanced == ~resp.err /\ FinalityAdvanced(resp.epoch, lastFin)
    IN  [events |->
            <<SlotPollEvent(slot)>>
            \o (IF boundary THEN <<BoundaryEvent(slot)>> ELSE <<>>)
            \o (IF advanced THEN FinalizedEvents(slot, lastFin, resp.epoch) ELSE <<>>),
         lastEpoch |-> IF boundary THEN SlotToEpoch(slot) ELSE lastEp,
         lastFinalEpoch |-> IF resp.err THEN 0
                            ELSE IF advanced THEN resp.epoch ELSE lastFin]

\* the mutant does not store the finalized epoch it has announced
NextEventsResultKeepFinal(slot, lastEp, lastFin, resp) ==
    LET boundary == IsNewBoundary(slot, lastEp)
        advanced == ~resp.err /\ FinalityAdvanced(resp.epoch, lastFin)
    IN  [events |->
            <<SlotPollEvent(slot)>>
            \o (IF boundary THEN <<BoundaryEvent(slot)>> ELSE <<>>)
            \o (IF advanced THEN FinalizedEvents(slot, lastFin, resp.epoch) ELSE <<>>),
         lastEpoch |-> IF boundary THEN SlotToEpoch(slot) ELSE lastEp,
         lastFinalEpoch |-> lastFin]

NextEventsResult(slot, lastEp, lastFin, resp) ==
    LET boundary == IsNewBoundary(slot, lastEp)
        advanced == ~resp.err /\ FinalityAdvanced(resp.epoch, lastFin)
    IN  [events |->
            <<SlotPollEvent(slot)>>
            \o (IF boundary THEN <<BoundaryEvent(slot)>> ELSE <<>>)
            \o (IF advanced THEN FinalizedEvents(slot, lastFin, resp.epoch) ELSE <<>>),
         lastEpoch |-> IF boundary THEN SlotToEpoch(slot) ELSE lastEp,
         lastFinalEpoch |-> IF advanced THEN resp.epoch ELSE lastFin]

EventsOfType(evs, t) == SelectSeq(evs, LAMBDA e : e.type = t)

CallSlots ==
    {s \in 0..MaxSlot : \/ s % SlotsPerEpoch <= SlotSpread
                        \/ s % SlotsPerEpoch >= SlotsPerEpoch - SlotSpread}

BoundarySlots == {s \in 0..(MaxSlot + 1) : s % SlotsPerEpoch = 0}

\* One call of NextEvents: the scheduler's fields and the returned list.
CallNextEvents(slot, resp) ==
    LET r == NextEventsResult(slot, lastEpoch, lastFinalEpoch, resp)
    IN  /\ tickSlot' = slot
        /\ tickEvents' = r.events
        /\ lastEpoch' = r.lastEpoch
        /\ lastFinalEpoch' = r.lastFinalEpoch

FinalityResponses == {FinalityError} \cup {FinalityOk(F) : F \in 0..MaxFinalized}

\* NewScheduler: both epochs zero, nothing called yet
InitScheduler ==
    /\ genesisTime = 0
    /\ lastEpoch = 0
    /\ lastFinalEpoch = 0
    /\ tickSlot = 0
    /\ finResp = FinalityError
    /\ prevEpoch = 0
    /\ prevFinal = 0
    /\ tickEvents = <<>>
    /\ monotone = TRUE
    /\ boundaryCount = [s \in BoundarySlots |-> 0]
    /\ finalizedCount = [e \in 0..MaxFinalized |-> 0]
    /\ rewardsCount = [e \in 0..MaxFinalized |-> 0]

----------------------------------------------------------------------------
(* Scheduler: the clock *)

\* the mutant divides without the test for a negative elapsed time
SlotAtNoClamp(t, g) == (t - g) \div SlotDuration

\* the slot at time t for genesis g: elapsed / SlotDuration, 0 before genesis
SlotAt(t, g) ==
    LET elapsed == t - g
    IN  IF elapsed < 0 THEN 0 ELSE elapsed \div SlotDuration

\* CurrentSlot: elapsed := time.Since(s.genesisTime)
CurrentSlot == SlotAt(now, genesisTime)

\* the mutant counts the slots from time 0
SlotTimeFromZero(slot) == slot * SlotDuration

\* SlotTime(slot) = genesisTime + slot * SlotDuration
SlotTime(slot) == genesisTime + slot * SlotDuration

----------------------------------------------------------------------------
(* Monitor: events to jobs *)

\* cfg.Validators
Validators == [i \in 1..NumValidators |-> 100 + i]

\* make(chan Job, size*2)
JobChanCapWide == 3 * PoolSize

JobChanCap == 2 * PoolSize

\* the mutant swaps the EpochBoundary and EpochFinalized cases of the switch
HandlerOfSwapped(evType) ==
    CASE evType = "SLOT_POLL" -> "pollValidators"
      [] evType = "EPOCH_BOUNDARY" -> "fetchRewards"
      [] evType = "EPOCH_FINALIZED" -> "fetchDuties"

\* processEvent: switch event.Type
HandlerOf(evType) ==
    CASE evType = "SLOT_POLL" -> "pollValidators"
      [] evType = "EPOCH_BOUNDARY" -> "fetchDuties"
      [] evType = "EPOCH_FINALIZED" -> "fetchRewards"

\* the mutant computes the job's epoch from the slot of the event
JobOfSlotEpoch(event, i) ==
    LET h == HandlerOf(event.type)
    IN  [type |-> CASE h = "pollValidators" -> "STATUS"
                    [] h = "fetchDuties" -> "DUTIES"
                    [] h = "fetchRewards" -> "REWARDS",
         validator |-> IF h = "pollValidators" THEN Validators[i] ELSE 0,
         slot |-> event.slot, epoch |-> SlotToEpoch(event.slot)]

\* the Job that pollValidators (for validator number i), fetchDuties or
\* fetchRewards builds from the event
JobOf(event, i) ==
    LET h == HandlerOf(event.type)
    IN  CASE h = "pollValidators" ->
               [type |-> "STATUS", validator |-> Validators[i],
                slot |-> event.slot, epoch |-> event.epoch]
          [] h = "fetchDuties" ->
               [type |-> "DUTIES", validator |-> 0,
                slot |-> event.slot, epoch |-> event.epoch]
          [] h = "fetchRewards" ->
               [type |-> "REWARDS", validator |-> 0,
                slot |-> event.slot, epoch |-> event.epoch]

\* the mutant leaves the validator loop after the first Submit
MoreValidatorsNone(event, i) == FALSE

\* pollValidators: for _, validatorIndex := range event.Validators
MoreValidators(event, i) ==
    HandlerOf(event.type) = "pollValidators" /\ i < Len(Validators)

----------------------------------------------------------------------------
(* beacon.Client: doRequest (GET) and doRequestWithBody (POST) *)

\* the status codes a Beacon node answers with
Statuses == {200, 404, 429, 500, 502, 503, 504}

\* every status code ShouldRetry can be asked about
StatusCodes == 100..599

\* what c.httpClient.Do returns: an error, or a response with a status code and
\* a body that json.Decode accepts or rejects
NoResponse == [err |-> FALSE, status |-> 0, decodes |-> FALSE]
TransportError == [err |-> TRUE, status |-> 0, decodes |-> FALSE]
Responses ==
    {TransportError}
    \cup {[err |-> FALSE, status |-> st, decodes |-> FALSE] : st \in Statuses}
    \cup {[err |-> FALSE, status |-> 200, decodes |-> TRUE]}

\* the mutant forgets 429
ShouldRetryOnly503(statusCode) == statusCode = 503

\* the mutant retries every 5xx status
ShouldRetryAny5xx(statusCode) == statusCode = 429 \/ statusCode >= 500

\* backoff.ShouldRetry
ShouldRetry(statusCode) == statusCode = 429 \/ statusCode = 503

\* the mutant sends POST through the retrying doRequest as well
RequestFuncAlwaysRetrying(method) == "doRequest"

\* Client.get calls doRequest, Client.post calls doRequestWithBody
RequestFunc(method) ==
    IF method = "GET" THEN "doRequest" ELSE "doRequestWithBody"

\* the mutant never advances the loop variable
NextAttemptSame(a) == a

\* doRequest: for attempt := 0; attempt <= c.maxRetries; attempt++
NextAttempt(a) == a + 1

\* backoff.DefaultConfig: 100 ms, 30 s, 2.0, 0.2
DefaultConfig ==
    [initialDelay |-> 100, maxDelay |-> 30000, multiplier |-> 2, jitterFactor |-> 200]

\* another Config handed to backoff.New: 2 ms, 500 ms, 3.0, 0.5
SteepConfig ==
    [initialDelay |-> 2, maxDelay |-> 500, multiplier |-> 3, jitterFactor |-> 500]

BackoffConfigs == {DefaultConfig, SteepConfig}

\* rand.Float64(), a value of [0, 1), in thousandths
JitterDraws == {0, 250, 500, 750, 999}

\* math.Pow for a whole base and exponent
RECURSIVE Pow(_, _)
Pow(m, n) == IF n = 0 THEN 1 ELSE m * Pow(m, n - 1)

\* jitter := 1.0 + (rand.Float64()*2-1)*b.cfg.JitterFactor, in thousandths
JitterOf(cfg, r) == 1000 + ((2 * r - 1000) * cfg.jitterFactor) \div 1000

\* the mutant leaves the exponent out
DelayOfFlat(cfg, n, r) ==
    IF n = 0 THEN cfg.initialDelay
    ELSE Min((cfg.initialDelay * JitterOf(cfg, r)) \div 1000, cfg.maxDelay)

\* the mutant returns the jittered delay without the cap
DelayOfUncapped(cfg, n, r) ==
    IF n = 0 THEN cfg.initialDelay
    ELSE (cfg.initialDelay * Pow(cfg.multiplier, n) * JitterOf(cfg, r)) \div 1000

\* the mutant applies the jitter at attempt 0 as well
DelayOfJitterFirst(cfg, n, r) ==
    Min((cfg.initialDelay * Pow(cfg.multiplier, n) * JitterOf(cfg, r)) \div 1000,
        cfg.maxDelay)

\* Backoff.NextDelay, the value returned with b.attempts = n and the draw r:
\* InitialDelay at attempt 0, else InitialDelay * Multiplier^n * jitter capped at
\* MaxDelay and truncated by time.Duration()
DelayOf(cfg, n, r) ==
    IF n = 0 THEN cfg.initialDelay
    ELSE Min((cfg.initialDelay * Pow(cfg.multiplier, n) * JitterOf(cfg, r)) \div 1000,
             cfg.maxDelay)

\* Backoff.NextDelay with the draw r
NextDelay(r) ==
    /\ bDelay' = DelayOf(bCfg, bAttempts, r)
    /\ bIndex' = bAttempts
    /\ bAttempts' = bAttempts + 1
    /\ UNCHANGED bCfg

\* backoff.New(cfg), as an initial state
NewBackoff(cfg) ==
    /\ bCfg = cfg
    /\ bAttempts = 0
    /\ bDelay = 0
    /\ bIndex = 0
    /\ bOp = "New"
    /\ bWaited = "none"
    /\ bTimer = FALSE
    /\ bResetFrom = -1

\* no operation and no status job yet
InitRequest ==
    /\ reqMethod = "none"
    /\ reqFunc = "none"
    /\ reqPc = "idle"
    /\ attempt = 0
    /\ httpAttempts = 0
    /\ tokens = 0
    /\ lastResp = NoResponse
    /\ reqResult = "none"
    /\ respLog = <<>>
    /\ waitLog = <<>>
    /\ jobPc = "none"
    /\ saveCalls = 0
    /\ snapshotRows = 0

\* NewClient (maxRetries: cfg.ScyllaDB.MaxRetries, at least 1 after setDefaults);
\* no operation yet
InitClient ==
    /\ maxRetries \in 1..MaxRetriesCfg
    /\ urlOk \in BOOLEAN
    /\ InitRequest
    /\ NewBackoff(DefaultConfig)

\* a client that serves no operation (SpecSched and Spec draw the finality
\* lookup's outcome directly)
IdleClient ==
    /\ InitClient
    /\ maxRetries = 1
    /\ urlOk

\* the function returns err
Return(err) ==
    /\ reqPc' = "done"
    /\ reqResult' = err

\* Client.get / Client.post is called: b := backoff.NewDefault(), attempt := 0;
\* a GET may be the GetValidator of a processStatusJob
ReqStart ==
    /\ reqPc \in {"idle", "done"}
    /\ jobPc # "get"
    /\ \E method \in {"GET", "POST"} :
         /\ reqMethod' = method
         /\ reqFunc' = RequestFunc(method)
         /\ jobPc' \in (IF method = "GET" THEN {"get", "none"} ELSE {"none"})
    /\ saveCalls' = 0
    /\ snapshotRows' = 0
    /\ respLog' = <<>>
    /\ waitLog' = <<>>
    /\ reqPc' = "limiter"
    /\ attempt' = 0
    /\ bAttempts' = 0
    /\ bCfg' = DefaultConfig
    /\ bDelay' = 0
    /\ bIndex' = 0
    /\ bOp' = "New"
    /\ bWaited' = "none"
    /\ bTimer' = FALSE
    /\ bResetFrom' = -1
    /\ httpAttempts' = 0
    /\ tokens' = 0
    /\ lastResp' = NoResponse
    /\ reqResult' = "none"
    /\ UNCHANGED <<schedVars, monVars, poolVars, storeVars, nodeVars,
                   maxRetries, urlOk>>

\* processStatusJob after GetValidator: an error is returned as it is; else the
\* snapshot is built and m.repo.SaveValidatorSnapshot is called once, the store
\* taking the row or failing (logged), and the snapshot is returned
StatusJobReturn ==
    /\ jobPc = "get"
    /\ reqPc = "done"
    /\ jobPc' = "returned"
    /\ IF reqResult = "ok"
       THEN /\ saveCalls' = saveCalls + 1
            /\ \E stored \in BOOLEAN :
                 snapshotRows' = IF stored THEN snapshotRows + 1 ELSE snapshotRows
       ELSE UNCHANGED <<saveCalls, snapshotRows>>
    /\ UNCHANGED <<schedVars, monVars, poolVars, storeVars, nodeVars,
                   reqVars, bAttempts, bRest, callLog>>

\* c.limiter.Wait(ctx): an error when the context is cancelled, else a token
ReqLimiter ==
    /\ reqPc = "limiter"
    /\ IF ctxDone
       THEN /\ Return("rate limiter error")
            /\ UNCHANGED tokens
       ELSE /\ tokens' = tokens + 1
            /\ reqPc' = "send"
            /\ UNCHANGED reqResult
    /\ UNCHANGED <<schedVars, monVars, poolVars, storeVars, nodeVars,
                   maxRetries, urlOk, reqMethod, reqFunc, attempt,
                   bAttempts, httpAttempts, lastResp, bRest, callLog, jobVars>>

\* doRequest from http.NewRequestWithContext to the end of the loop body: the
\* request is built and sent; a transport error or a ShouldRetry status with
\* attempt < maxRetries enters b.Wait (NextDelay advances b.attempts), with the
\* attempts used up it is returned; any other status but 200 and a body that
\* does not decode are returned as errors; otherwise nil
GetSend ==
    /\ reqPc = "send"
    /\ reqFunc = "doRequest"
    /\ IF ~urlOk
       THEN /\ Return("failed to create request")
            /\ UNCHANGED <<httpAttempts, lastResp, bAttempts, bRest, callLog>>
       ELSE \E resp \in Responses :
              /\ ctxDone => resp.err
              /\ httpAttempts' = httpAttempts + 1
              /\ lastResp' = resp
              /\ respLog' = Append(respLog, resp)
              /\ IF resp.err \/ ShouldRetry(resp.status)
                 THEN IF attempt < maxRetries
                      THEN /\ \E r \in JitterDraws :
                                /\ NextDelay(r)
                                /\ waitLog' = Append(waitLog,
                                       [index |-> bAttempts,
                                        delay |-> DelayOf(bCfg, bAttempts, r)])
                           /\ bOp' = "Wait"
                           /\ bWaited' = "pending"
                           /\ bTimer' = FALSE
                           /\ UNCHANGED bResetFrom
                           /\ reqPc' = "backoff"
                           /\ UNCHANGED reqResult
                      ELSE /\ Return(IF resp.err THEN "request failed after attempts"
                                     ELSE "retryable error")
                           /\ UNCHANGED <<bAttempts, bRest, waitLog>>
                 ELSE /\ Return(IF resp.status # 200 THEN "unexpected status"
                                ELSE IF ~resp.decodes THEN "failed to decode response"
                                ELSE "ok")
                      /\ UNCHANGED <<bAttempts, bRest, waitLog>>
    /\ UNCHANGED <<schedVars, monVars, poolVars, storeVars, nodeVars,
                   maxRetries, urlOk, reqMethod, reqFunc, attempt,
                   tokens, jobVars>>

\* the mutant re-enters the loop body after the limiter
LoopHeadAfterLimiter == "send"

\* the loop body of doRequest begins with c.limiter.Wait
LoopHead == "limiter"

\* the mutant's Wait returns true without waiting for its timer
WaitOverAtOnce(fired) == TRUE

\* Wait: case <-timer.C is ready when the timer has fired
WaitOver(fired) == fired

\* time passes while b.Wait blocks: timer := time.NewTimer(delay) fires after
\* the delay
BackoffTimerFires ==
    /\ reqPc = "backoff"
    /\ ~bTimer
    /\ bTimer' = TRUE
    /\ UNCHANGED <<schedVars, monVars, poolVars, storeVars, nodeVars,
                   reqVars, bAttempts, bCfg, bDelay, bIndex, bOp, bWaited, bResetFrom,
                   callLog, jobVars>>

\* b.Wait: case <-timer.C, true; continue: attempt++ and the loop test (return
\* lastErr when it fails)
GetBackoffDone ==
    /\ reqPc = "backoff"
    /\ WaitOver(bTimer)
    /\ attempt' = NextAttempt(attempt)
    /\ IF NextAttempt(attempt) <= maxRetries
       THEN /\ reqPc' = LoopHead
            /\ UNCHANGED reqResult
       ELSE Return("retryable error")
    /\ bWaited' = "true"
    /\ UNCHANGED <<schedVars, monVars, poolVars, storeVars, nodeVars,
                   maxRetries, urlOk, reqMethod, reqFunc,
                   bAttempts, httpAttempts, tokens, lastResp, bCfg, bDelay, bIndex,
                   bOp, bTimer, bResetFrom, callLog, jobVars>>

\* b.Wait: case <-ctx.Done(), false; return ctx.Err()
GetBackoffCancelled ==
    /\ reqPc = "backoff"
    /\ ctxDone
    /\ Return("context canceled")
    /\ bWaited' = "false"
    /\ UNCHANGED <<schedVars, monVars, poolVars, storeVars, nodeVars,
                   maxRetries, urlOk, reqMethod, reqFunc, attempt,
                   bAttempts, httpAttempts, tokens, lastResp, bCfg, bDelay, bIndex,
                   bOp, bTimer, bResetFrom, callLog, jobVars>>

\* doRequestWithBody after the limiter: the request is built and sent once; a
\* transport error, any status but 200 and a body that does not decode are
\* returned as errors; otherwise nil
PostSend ==
    /\ reqPc = "send"
    /\ reqFunc = "doRequestWithBody"
    /\ IF ~urlOk
       THEN /\ Return("failed to create request")
            /\ UNCHANGED <<httpAttempts, lastResp, respLog>>
       ELSE \E resp \in Responses :
              /\ ctxDone => resp.err
              /\ httpAttempts' = httpAttempts + 1
              /\ lastResp' = resp
              /\ respLog' = Append(respLog, resp)
              /\ Return(IF resp.err THEN "request failed"
                        ELSE IF resp.status # 200 THEN "unexpected status"
                        ELSE IF ~resp.decodes THEN "failed to decode response"
                        ELSE "ok")
    /\ UNCHANGED <<schedVars, monVars, poolVars, storeVars, nodeVars,
                   maxRetries, urlOk, reqMethod, reqFunc, attempt,
                   bAttempts, tokens, bRest, waitLog, jobVars>>

\* the root context is cancelled while the client works
HttpCancel ==
    /\ ~ctxDone
    /\ ctxDone' = TRUE
    /\ UNCHANGED <<schedVars, monRest, httpVars, poolVars,
                   storeVars, nodeVars>>

----------------------------------------------------------------------------
(* storage.Repository and Monitor.Process: processStatusJob, *)
(* processDutiesJob, processRewardsJob                        *)

\* primary keys of the tables (migrations: PRIMARY KEY ((validator_index), ...))
SnapshotKey(r) == <<r.validator_index, r.slot>>

DutyKey(r) == <<r.validator_index, r.epoch, r.slot>>

RewardKey(r) == <<r.validator_index, r.epoch>>

PenaltyKey(r) == <<r.validator_index, r.epoch, r.slot>>

\* the primary key of a row of the table called name
PrimaryKey(name, row) ==
    CASE name = "validator_snapshots" -> SnapshotKey(row)
      [] name = "attestation_duties" -> DutyKey(row)
      [] name = "attestation_rewards" -> RewardKey(row)
      [] name = "validator_penalties" -> PenaltyKey(row)

\* the mutant appends the rows as a table without a primary key would
InsertAppend(T, name, rows, S) == T \cup {rows[i] : i \in S}

\* the INSERTs number S of the sequence rows reach T, the table called name,
\* in the order of the sequence: CQL's INSERT replaces the row that has the
\* same primary key
Insert(T, name, rows, S) ==
    LET Key(x) == PrimaryKey(name, x)
    IN  {x \in T : \A i \in S : Key(rows[i]) # Key(x)}
        \cup {rows[i] : i \in {j \in S : \A k \in S :
                                   k > j => Key(rows[k]) # Key(rows[j])}}

\* which INSERTs of a call reach the table: all of them when the call returns
\* nil; any of them when it returns an error (a timed-out write may have been
\* applied, an unlogged batch is not atomic)
Applied(rows, ok) ==
    IF ok THEN {1..Len(rows)} ELSE SUBSET (1..Len(rows))

\* what GetValidator returns in Data: status, balance, effective balance
ValidatorStates ==
    {[status |-> "active_ongoing", balance |-> 33, effective |-> 32],
     [status |-> "exited_slashed", balance |-> 31, effective |-> 31]}

\* what GetAttesterDuties returns in Data for the epoch of the job
DutyData(job) ==
    LET first == job.epoch * SlotsPerEpoch
        d(v, s, c) == [validator_index |-> v, slot |-> s,
                       committee_index |-> c, validator_committee_index |-> c + 1]
    IN  {<<>>,
         <<d(Validators[1], first, 0)>>,
         <<d(Validators[1], first, 0), d(Validators[NumValidators], first + 1, 1)>>}

\* head, source and target of one entry of total_rewards, in gwei (amounts of
\* this size are far from the ends of int64, so the sums below are exact)
RewardVectors ==
    [gain |-> [head |-> 3, source |-> 5, target |-> 9],
     miss |-> [head |-> 0, source |-> -5, target |-> -9],
     even |-> [head |-> 3, source |-> -5, target |-> 2],
     late |-> [head |-> 3, source |-> 5, target |-> -9]]

\* what GetAttestationRewards returns in TotalRewards
RewardData ==
    LET r(v, k) == [validator_index |-> v, head |-> RewardVectors[k].head,
                    source |-> RewardVectors[k].source,
                    target |-> RewardVectors[k].target]
    IN  {<<r(Validators[1], "gain")>>,
         <<r(Validators[1], "miss")>>,
         <<r(Validators[1], "late"), r(Validators[NumValidators], "gain")>>,
         <<r(Validators[1], "even"), r(Validators[NumValidators], "miss")>>}

\* the jobs of the ticks at JobSlots: a poll per validator, the duties of the
\* boundary, the rewards of the epochs finalized at the tick
JobSlots == {2 * SlotsPerEpoch, 2 * SlotsPerEpoch + 1}

Jobs ==
    {JobOf(SlotPollEvent(s), i) : s \in JobSlots, i \in 1..NumValidators}
    \cup {JobOf(BoundaryEvent(s), 1) : s \in {t \in JobSlots : t % SlotsPerEpoch = 0}}
    \cup {JobOf(FinalizedEvents(s, 0, SlotToEpoch(s))[e], 1) :
            s \in JobSlots, e \in 1..2}

\* processStatusJob: snapshot := &storage.ValidatorSnapshot{...}
SnapshotOf(job, v, ts) ==
    [validator_index |-> job.validator, slot |-> job.slot, status |-> v.status,
     balance |-> v.balance, effective_balance |-> v.effective, timestamp |-> ts]

\* processDutiesJob: one AttestationDuty per entry of resp.Data
DutiesOf(job, data, ts) ==
    [i \in 1..Len(data) |->
        [validator_index |-> data[i].validator_index, epoch |-> job.epoch,
         slot |-> data[i].slot, committee_index |-> data[i].committee_index,
         committee_position |-> data[i].validator_committee_index,
         timestamp |-> ts]]

\* the mutant leaves the target component out of the sum
TotalRewardNoTarget(r) == r.head + r.source

\* processRewardsJob: totalReward := r.Head.Int64() + r.Source.Int64() + r.Target.Int64()
TotalReward(r) == r.head + r.source + r.target

\* processRewardsJob: one AttestationReward per entry of resp.TotalRewards
RewardsOf(job, data, ts) ==
    [i \in 1..Len(data) |->
        [validator_index |-> data[i].validator_index, epoch |-> job.epoch,
         head_reward |-> data[i].head, source_reward |-> data[i].source,
         target_reward |-> data[i].target, total_reward |-> TotalReward(data[i]),
         timestamp |-> ts]]

\* the mutant tests "<= 0"
PenaltiesOfNonPositive(job, data, ts) ==
    LET neg == SelectSeq(data, LAMBDA r : TotalReward(r) <= 0)
    IN  [i \in 1..Len(neg) |->
            [validator_index |-> neg[i].validator_index, epoch |-> job.epoch,
             slot |-> job.slot, penalty_type |-> "attestation_miss",
             penalty_gwei |-> 0 - TotalReward(neg[i]), timestamp |-> ts]]

\* processRewardsJob: if totalReward < 0 { penalties = append(penalties, penalty) }
PenaltiesOf(job, data, ts) ==
    LET neg == SelectSeq(data, LAMBDA r : TotalReward(r) < 0)
    IN  [i \in 1..Len(neg) |->
            [validator_index |-> neg[i].validator_index, epoch |-> job.epoch,
             slot |-> job.slot, penalty_type |-> "attestation_miss",
             penalty_gwei |-> 0 - TotalReward(neg[i]), timestamp |-> ts]]

\* the mutant returns the error of a failed repository call
JobErrorAnyWrite(fetchFailed, writeFailed) == fetchFailed \/ writeFailed

\* the error a process*Job function returns: the fetch error and no other (a
\* repository error is logged)
JobError(fetchFailed, writeFailed) == fetchFailed

NoResult == [type |-> "none"]

\* objects handed to the repository in SpecStore: snapshots, duties and rewards
\* as the jobs construct them, some with the zero Timestamp, some sharing
\* their primary key
StoreObjects ==
    LET poll == SlotPollEvent(2 * SlotsPerEpoch)
        next == SlotPollEvent(2 * SlotsPerEpoch + 1)
        duty == JobOf(BoundaryEvent(2 * SlotsPerEpoch), 1)
        rew  == JobOf(FinalizedEvents(2 * SlotsPerEpoch, 0, 1)[1], 1)
        v(k) == CHOOSE x \in ValidatorStates : (x.status = "active_ongoing") = (k = 1)
        d(k) == CHOOSE x \in DutyData(duty) : Len(x) = k
        r(k) == CHOOSE x \in RewardData :
                  Len(x) = 1 /\ (TotalReward(x[1]) > 0) = (k = 1)
    IN  <<[table |-> "validator_snapshots", row |-> SnapshotOf(JobOf(poll, 1), v(1), 0)],
          [table |-> "validator_snapshots", row |-> SnapshotOf(JobOf(poll, 1), v(2), 1)],
          [table |-> "validator_snapshots", row |-> SnapshotOf(JobOf(next, 1), v(1), 1)],
          [table |-> "attestation_duties", row |-> DutiesOf(duty, d(2), 0)[1]],
          [table |-> "attestation_duties", row |-> DutiesOf(duty, d(2), 1)[2]],
          [table |-> "attestation_rewards", row |-> RewardsOf(rew, r(1), 0)[1]],
          [table |-> "attestation_rewards", row |-> RewardsOf(rew, r(2), 1)[1]]>>

\* time.Now() at the n-th save of SpecStore (later than the jobs' timestamps)
StoreTime(n) == MaxJobRuns + n

\* if x.Timestamp.IsZero() { x.Timestamp = time.Now().UTC() }
Stamp(ts, clock) == IF ts = 0 THEN clock ELSE ts

\* the row an INSERT writes for object o at the n-th save
RowAt(o, n) ==
    [StoreObjects[o].row EXCEPT !.timestamp = Stamp(objTs[o], StoreTime(n))]

\* NewMonitor: the repository over the migrated, empty tables
InitStore ==
    /\ pjPc = "idle"
    /\ pjJob = NoResult
    /\ pjData = <<>>
    /\ pjObj = <<>>
    /\ pjPens = <<>>
    /\ pjIdx = 1
    /\ pjRet = NoResult
    /\ pjLog = <<>>
    /\ pjFetched = FALSE
    /\ pjFailed = FALSE
    /\ pjRuns = 0
    /\ snapTbl = {}
    /\ dutyTbl = {}
    /\ rewardTbl = {}
    /\ penTbl = {}
    /\ objTs = [o \in DOMAIN StoreObjects |-> StoreObjects[o].row.timestamp]
    /\ saveLog = <<>>

storeRest == <<schedVars, monVars, httpVars, poolVars, nodeVars>>

\* Process(ctx, job) up to the first repository call: the fetch, and what the
\* job constructs from the response
JobFetch ==
    /\ pjPc = "idle"
    /\ pjRuns < MaxJobRuns
    /\ pjRuns' = pjRuns + 1
    /\ \E job \in Jobs, fetchOk \in BOOLEAN :
         /\ pjJob' = job
         /\ pjFetched' = fetchOk
         /\ pjFailed' = FALSE
         /\ pjIdx' = 1
         /\ IF ~fetchOk
            THEN /\ pjData' = <<>>
                 /\ pjObj' = <<>>
                 /\ pjPens' = <<>>
                 /\ pjPc' = "return"
            ELSE /\ pjPc' = "save"
                 /\ CASE job.type = "STATUS" ->
                           \E v \in ValidatorStates :
                             /\ pjData' = <<v>>
                             /\ pjObj' = <<SnapshotOf(job, v, pjRuns')>>
                             /\ pjPens' = <<>>
                      [] job.type = "DUTIES" ->
                           \E data \in DutyData(job) :
                             /\ pjData' = data
                             /\ pjObj' = DutiesOf(job, data, pjRuns')
                             /\ pjPens' = <<>>
                      [] job.type = "REWARDS" ->
                           \E data \in RewardData :
                             /\ pjData' = data
                             /\ pjObj' = RewardsOf(job, data, pjRuns')
                             /\ pjPens' = PenaltiesOf(job, data, pjRuns')
    /\ UNCHANGED <<pjRet, pjLog, tables, repoVars,
                   storeRest>>

\* m.repo.SaveValidatorSnapshot / SaveAttestationDuties / SaveAttestationRewards
JobSave ==
    /\ pjPc = "save"
    /\ \E ok \in BOOLEAN :
         /\ pjFailed' = ~ok
         /\ \E S \in Applied(pjObj, ok) :
              CASE pjJob.type = "STATUS" ->
                     /\ snapTbl' = Insert(snapTbl, "validator_snapshots", pjObj, S)
                     /\ UNCHANGED <<dutyTbl, rewardTbl, penTbl>>
                [] pjJob.type = "DUTIES" ->
                     /\ dutyTbl' = Insert(dutyTbl, "attestation_duties", pjObj, S)
                     /\ UNCHANGED <<snapTbl, rewardTbl, penTbl>>
                [] pjJob.type = "REWARDS" ->
                     /\ rewardTbl' = Insert(rewardTbl, "attestation_rewards", pjObj, S)
                     /\ UNCHANGED <<snapTbl, dutyTbl, penTbl>>
    /\ pjPc' = IF pjJob.type = "REWARDS" /\ pjPens # <<>> THEN "penalties" ELSE "return"
    /\ UNCHANGED <<pjJob, pjData, pjObj, pjPens, pjIdx, pjRet, pjLog, pjFetched, pjRuns,
                   repoVars,
                   storeRest>>

\* processRewardsJob: for _, penalty := range penalties { SaveValidatorPenalty }
JobSavePenalty ==
    /\ pjPc = "penalties"
    /\ \E ok \in BOOLEAN :
         /\ pjFailed' = (pjFailed \/ ~ok)
         /\ \E S \in Applied(<<pjPens[pjIdx]>>, ok) :
              penTbl' = Insert(penTbl, "validator_penalties", <<pjPens[pjIdx]>>, S)
    /\ pjIdx' = pjIdx + 1
    /\ pjPc' = IF pjIdx < Len(pjPens) THEN "penalties" ELSE "return"
    /\ UNCHANGED <<pjJob, pjData, pjObj, pjPens, pjRet, pjLog, pjFetched, pjRuns, snapTbl,
                   dutyTbl, rewardTbl, repoVars,
                   storeRest>>

\* processResults and logResult: a result with an error is logged as "Job
\* failed"; of any other result one line is written per snapshot, duty or
\* reward
LogResult(ret) ==
    IF ret.err THEN <<>>
    ELSE CASE ret.type = "STATUS" ->
                [i \in 1..Len(ret.obj) |->
                    [msg |-> "validator_status", slot |-> ret.obj[i].slot,
                     validator_index |-> ret.obj[i].validator_index,
                     status |-> ret.obj[i].status,
                     effective_balance_gwei |-> ret.obj[i].effective_balance,
                     balance_gwei |-> ret.obj[i].balance]]
           [] ret.type = "DUTIES" ->
                [i \in 1..Len(ret.obj) |->
                    [msg |-> "attestation_duty", slot |-> ret.obj[i].slot,
                     epoch |-> ret.obj[i].epoch,
                     validator_index |-> ret.obj[i].validator_index,
                     committee_index |-> ret.obj[i].committee_index,
                     committee_position |-> ret.obj[i].committee_position]]
           [] ret.type = "REWARDS" ->
                [i \in 1..Len(ret.obj) |->
                    [msg |-> "attestation_reward", epoch |-> ret.obj[i].epoch,
                     validator_index |-> ret.obj[i].validator_index,
                     head_reward |-> ret.obj[i].head_reward,
                     source_reward |-> ret.obj[i].source_reward,
                     target_reward |-> ret.obj[i].target_reward,
                     total_reward_gwei |-> ret.obj[i].total_reward,
                     duty_success |-> ret.obj[i].total_reward >= 0]]

\* return nil, err after a failed fetch; return snapshot / duties / rewards,
\* nil; the worker wraps what is returned in a Result, which processResults
\* logs
JobReturn ==
    /\ pjPc = "return"
    /\ LET fetchFailed == ~pjFetched
       IN  pjRet' = [type |-> pjJob.type, run |-> pjRuns, fetched |-> ~fetchFailed,
                     wrote |-> ~pjFailed,
                     err |-> JobError(fetchFailed, pjFailed),
                     obj |-> IF fetchFailed THEN <<>> ELSE pjObj]
    /\ pjLog' = LogResult(pjRet')
    /\ pjPc' = "idle"
    /\ UNCHANGED <<pjJob, pjData, pjObj, pjPens, pjIdx, pjFetched, pjFailed, pjRuns,
                   tables, repoVars,
                   storeRest>>

\* a Save* call of the repository with object o, which returns nil: the
\* Timestamp of the object is filled in when it is zero, then the INSERT
SaveObject(o) ==
    /\ Len(saveLog) < MaxSaves
    /\ saveLog' = Append(saveLog, o)
    /\ objTs' = [objTs EXCEPT ![o] = Stamp(@, StoreTime(Len(saveLog) + 1))]
    /\ UNCHANGED <<jobRun, penTbl, storeRest>>

\* Repository.SaveValidatorSnapshot
SaveValidatorSnapshot(o) ==
    /\ StoreObjects[o].table = "validator_snapshots"
    /\ SaveObject(o)
    /\ snapTbl' = Insert(snapTbl, StoreObjects[o].table,
                       <<RowAt(o, Len(saveLog) + 1)>>, {1})
    /\ UNCHANGED <<dutyTbl, rewardTbl>>

\* Repository.SaveAttestationDuty
SaveAttestationDuty(o) ==
    /\ StoreObjects[o].table = "attestation_duties"
    /\ SaveObject(o)
    /\ dutyTbl' = Insert(dutyTbl, StoreObjects[o].table,
                       <<RowAt(o, Len(saveLog) + 1)>>, {1})
    /\ UNCHANGED <<snapTbl, rewardTbl>>

\* Repository.SaveAttestationReward
SaveAttestationReward(o) ==
    /\ StoreObjects[o].table = "attestation_rewards"
    /\ SaveObject(o)
    /\ rewardTbl' = Insert(rewardTbl, StoreObjects[o].table,
                         <<RowAt(o, Len(saveLog) + 1)>>, {1})
    /\ UNCHANGED <<snapTbl, dutyTbl>>

----------------------------------------------------------------------------
(* Monitor.Start, the root context, the clock *)

\* the genesis time the Beacon node reports (the clock is read relative to it)
GenesisTimes == {0}

Workers == 1..PoolSize

\* NewWorkerPool: empty channels, no goroutine yet
NewWorkerPool ==
    /\ wPc = [w \in Workers |-> "none"]
    /\ wJob = [w \in Workers |-> 0]
    /\ resultChan = <<>>
    /\ jobClosed = FALSE
    /\ resultClosed = FALSE
    /\ stopPc = "none"
    /\ consPc = "none"
    /\ prodPc = "none"
    /\ nextJob = 1
    /\ panicWhy = "none"
    /\ stopAfterCancel = FALSE
    /\ startedAfterCancel = FALSE
    /\ wErr = [w \in Workers |-> FALSE]
    /\ wRecv = [w \in Workers |-> 0]
    /\ delivered = [w \in Workers |-> 0]
    /\ consErr = FALSE
    /\ jobHist = [j \in 1..MaxJobs |->
                      [recv |-> 0, proc |-> 0, sent |-> 0, cons |-> 0, dropped |-> 0]]
    /\ drainPc = "none"
    /\ drained = <<>>
    /\ drainFrom = <<>>
    /\ drainAlone = FALSE

\* NewMonitor / NewWorkerPool: nothing runs yet
InitMonitor ==
    /\ NewWorkerPool
    /\ InitStore
    /\ ctxDone = FALSE
    /\ started = "new"
    /\ loopPc = "off"
    /\ targetSlot = 0
    /\ waitFrom = 0
    /\ tickSlots = <<>>
    /\ evIdx = 1
    /\ vIdx = 1
    /\ jobChan = <<>>
    /\ liveWorkers = 0
    /\ startSlot = 0
    /\ ticks = 0
    /\ tickJobs = <<>>
    /\ pollAborted = FALSE
    /\ dutiesAt = [s \in BoundarySlots |-> 0]
    /\ enqDuties = {}
    /\ enqRewards = {}
    /\ dutiesAfterRewards = FALSE
    /\ finalityAhead = FALSE

\* GetGenesis answers with the time g
GenesisAt(g) == [err |-> FALSE, time |-> g]

GenesisError == [err |-> TRUE]

\* IsNodeSynced: an error, is_syncing = true, is_syncing = false
SyncResponses == {"error", "syncing", "synced"}

\* a node that reports the genesis time 0 and is in sync
HealthyNode ==
    /\ genesisResp = GenesisAt(0)
    /\ syncResp = "synced"

\* the mutant also fails when the node is not known to be in sync
StartFailsUnlessSynced(genesis, sync) == genesis.err \/ sync # "synced"

\* Monitor.Start returns an error: only the error of Scheduler.Initialize (a
\* failed or negative sync check is a warning in the log)
StartFails(genesis, sync) == genesis.err

\* Monitor.Start: Initialize fetches genesis (a failure is returned and nothing
\* is launched); after the sync check the workers, processResults and runLoop
\* are launched.
Start ==
    /\ started = "new"
    /\ IF StartFails(genesisResp, syncResp)
       THEN /\ started' = "failed"
            /\ UNCHANGED <<genesisTime, liveWorkers, loopPc, startSlot, consPc>>
       ELSE /\ started' = "running"
            /\ genesisTime' = genesisResp.time
            /\ liveWorkers' = PoolSize
            /\ consPc' = "run"
            /\ loopPc' = "wait"
            /\ startSlot' = SlotAt(now, genesisResp.time)
    /\ UNCHANGED <<lastEpoch, lastFinalEpoch, tickSlot, tickEvents, callVars, now,
                   ctxDone, intervalSlots, waitVars, evIdx, vIdx, jobChan, ticks,
                   tickJobs, pollAborted, dutiesAt, enqDuties, enqRewards,
                   dutiesAfterRewards, finalityAhead, httpVars, wPc, wJob, resultChan,
                   jobClosed, resultClosed, stopPc, prodPc, nextJob, panicWhy,
                   stopAfterCancel, startedAfterCancel, poolHist, drainVars, storeVars,
                   nodeVars>>

\* main: cancel() after the shutdown signal
Cancel ==
    /\ started = "running"
    /\ ~ctxDone
    /\ ctxDone' = TRUE
    /\ UNCHANGED <<genesisTime, lastEpoch, lastFinalEpoch, tickSlot, tickEvents,
                   callVars, now, intervalSlots, started, loopPc, waitVars, evIdx,
                   vIdx, jobChan, liveWorkers, startSlot, ticks, tickJobs, pollAborted,
                   dutiesAt, enqDuties, enqRewards, dutiesAfterRewards, finalityAhead,
                   httpVars, poolVars,
                   storeVars, nodeVars>>

\* the wall clock moves on by one slot duration; it runs at most MaxLag slots
\* ahead of the slot the tick loop is waiting for or working on
ClockAdvance ==
    /\ started = "running"
    /\ now + SlotDuration <= MaxSlot * SlotDuration
    /\ CurrentSlot < targetSlot + MaxLag
    /\ now' = now + SlotDuration
    /\ UNCHANGED <<genesisTime, lastEpoch, lastFinalEpoch, tickSlot, tickEvents,
                   callVars, ctxDone, intervalSlots, started, loopPc, waitVars,
                   evIdx, vIdx, jobChan, liveWorkers, startSlot, ticks, tickJobs,
                   pollAborted, dutiesAt, enqDuties, enqRewards, dutiesAfterRewards,
                   finalityAhead, httpVars, poolVars,
                   storeVars, nodeVars>>

----------------------------------------------------------------------------
(* Monitor.runLoop *)

\* the mutant waits for the slot it is in
TargetSlotCurrent(currentSlot, k) == currentSlot

\* targetSlot := currentSlot + uint64(s.intervalSlots)
TargetSlot(currentSlot, k) == currentSlot + k

\* WaitForSlotInterval up to its select: targetSlot := currentSlot + intervalSlots
LoopWait ==
    /\ loopPc = "wait"
    /\ ticks < MaxTicks
    /\ ticks' = ticks + 1
    /\ targetSlot' = TargetSlot(CurrentSlot, intervalSlots)
    /\ waitFrom' = now
    /\ loopPc' = IF SlotTime(TargetSlot(CurrentSlot, intervalSlots)) - now > 0
                 THEN "sleep" ELSE "events"
    /\ UNCHANGED <<genesisTime, lastEpoch, lastFinalEpoch, tickSlot, tickEvents,
                   callVars, now, ctxDone, intervalSlots, started, tickSlots, evIdx, vIdx,
                   jobChan, liveWorkers, startSlot, tickJobs, pollAborted, dutiesAt,
                   enqDuties, enqRewards, dutiesAfterRewards, finalityAhead, httpVars, poolVars,
                   storeVars, nodeVars>>

\* WaitForSlotInterval: case <-timer.C, return targetSlot
LoopTimer ==
    /\ loopPc = "sleep"
    /\ now >= SlotTime(targetSlot)
    /\ loopPc' = "events"
    /\ UNCHANGED <<genesisTime, lastEpoch, lastFinalEpoch, tickSlot, tickEvents,
                   callVars, now, ctxDone, intervalSlots, started, waitVars, evIdx,
                   vIdx, jobChan, liveWorkers, startSlot, ticks, tickJobs, pollAborted,
                   dutiesAt, enqDuties, enqRewards, dutiesAfterRewards, finalityAhead,
                   httpVars, poolVars,
                   storeVars, nodeVars>>

\* WaitForSlotInterval: case <-ctx.Done(), return ctx.Err(); runLoop returns
LoopWaitCancelled ==
    /\ loopPc = "sleep"
    /\ ctxDone
    /\ loopPc' = "done"
    /\ UNCHANGED <<genesisTime, lastEpoch, lastFinalEpoch, tickSlot, tickEvents,
                   callVars, now, ctxDone, intervalSlots, started, waitVars, evIdx,
                   vIdx, jobChan, liveWorkers, startSlot, ticks, tickJobs, pollAborted,
                   dutiesAt, enqDuties, enqRewards, dutiesAfterRewards, finalityAhead,
                   httpVars, poolVars,
                   storeVars, nodeVars>>

\* the mutant leaves the loop when the finality lookup of the tick failed
LoopAfterNextEventsExitOnError(resp) == IF resp.err THEN "done" ELSE "dispatch"

\* runLoop after NextEvents: NextEvents logs a failed finality lookup and
\* returns its events with a nil error, so the loop goes on to the events
LoopAfterNextEvents(resp) == "dispatch"

\* events, err := m.scheduler.NextEvents(ctx, slot); the finality lookup of a
\* cancelled context fails in the rate limiter
LoopNextEvents ==
    /\ loopPc = "events"
    /\ \E resp \in FinalityResponses :
         /\ ctxDone => resp.err
         /\ CallNextEvents(targetSlot, resp)
         /\ finalityAhead' =
               (finalityAhead \/ (~resp.err /\ resp.epoch > SlotToEpoch(targetSlot)))
         /\ loopPc' = LoopAfterNextEvents(resp)
    /\ evIdx' = 1
    /\ vIdx' = 1
    /\ tickJobs' = <<>>
    /\ pollAborted' = FALSE
    /\ UNCHANGED <<genesisTime, callVars, now, ctxDone, intervalSlots, started,
                   waitVars, jobChan, liveWorkers, startSlot, ticks, dutiesAt,
                   enqDuties, enqRewards, dutiesAfterRewards, httpVars, poolVars,
                   storeVars, nodeVars>>

\* the loop position after the handler of event evIdx has returned
AfterEvent ==
    /\ evIdx' = evIdx + 1
    /\ vIdx' = 1
    /\ loopPc' = IF evIdx + 1 > Len(tickEvents) THEN "wait" ELSE "dispatch"

\* pollValidators / fetchDuties / fetchRewards at their select: a cancelled
\* context returns from the handler, otherwise the default branch calls Submit
LoopSelect ==
    /\ loopPc = "dispatch"
    /\ IF ctxDone
       THEN /\ AfterEvent
            /\ pollAborted' =
                  (pollAborted \/ HandlerOf(tickEvents[evIdx].type) = "pollValidators")
       ELSE /\ loopPc' = "submit"
            /\ UNCHANGED <<evIdx, vIdx, pollAborted>>
    /\ UNCHANGED <<genesisTime, lastEpoch, lastFinalEpoch, tickSlot, tickEvents,
                   callVars, now, ctxDone, intervalSlots, started, waitVars, jobChan,
                   liveWorkers, startSlot, ticks, tickJobs, dutiesAt, enqDuties,
                   enqRewards, dutiesAfterRewards, finalityAhead, httpVars, poolVars,
                   storeVars, nodeVars>>

\* WorkerPool.Submit: wp.jobChan <- job, blocking while the channel is full
LoopSubmit ==
    /\ loopPc = "submit"
    /\ Len(jobChan) < JobChanCap
    /\ LET event == tickEvents[evIdx]
           job == JobOf(event, vIdx)
       IN  /\ jobChan' = Append(jobChan, job)
           /\ tickJobs' = Append(tickJobs, job)
           /\ dutiesAt' =
                 IF job.type = "DUTIES" /\ job.slot \in DOMAIN dutiesAt
                 THEN [dutiesAt EXCEPT ![job.slot] = Min(2, @ + 1)]
                 ELSE dutiesAt
           /\ enqDuties' =
                 IF job.type = "DUTIES" THEN enqDuties \cup {job.epoch} ELSE enqDuties
           /\ enqRewards' =
                 IF job.type = "REWARDS" THEN enqRewards \cup {job.epoch} ELSE enqRewards
           /\ dutiesAfterRewards' =
                 (dutiesAfterRewards \/ (job.type = "DUTIES" /\ job.epoch \in enqRewards))
           /\ IF MoreValidators(event, vIdx)
              THEN /\ vIdx' = vIdx + 1
                   /\ loopPc' = "dispatch"
                   /\ UNCHANGED evIdx
              ELSE AfterEvent
    /\ UNCHANGED <<genesisTime, lastEpoch, lastFinalEpoch, tickSlot, tickEvents,
                   callVars, now, ctxDone, intervalSlots, started, waitVars,
                   liveWorkers, startSlot, ticks, pollAborted, finalityAhead, httpVars, poolVars,
                   storeVars, nodeVars>>

----------------------------------------------------------------------------
(* WorkerPool.worker, as the tick loop sees it *)

\* case job, ok := <-wp.jobChan: a worker takes the oldest job
WorkerReceive ==
    /\ liveWorkers > 0
    /\ jobChan # <<>>
    /\ jobChan' = Tail(jobChan)
    /\ UNCHANGED <<genesisTime, lastEpoch, lastFinalEpoch, tickSlot, tickEvents,
                   callVars, now, ctxDone, intervalSlots, started, loopPc, waitVars,
                   evIdx, vIdx, liveWorkers, startSlot, ticks, tickJobs, pollAborted,
                   dutiesAt, enqDuties, enqRewards, dutiesAfterRewards, finalityAhead,
                   httpVars, poolVars,
                   storeVars, nodeVars>>

\* case <-ctx.Done(): a worker returns
WorkerExit ==
    /\ liveWorkers > 0
    /\ ctxDone
    /\ liveWorkers' = liveWorkers - 1
    /\ UNCHANGED <<genesisTime, lastEpoch, lastFinalEpoch, tickSlot, tickEvents,
                   callVars, now, ctxDone, intervalSlots, started, loopPc, waitVars,
                   evIdx, vIdx, jobChan, startSlot, ticks, tickJobs, pollAborted,
                   dutiesAt, enqDuties, enqRewards, dutiesAfterRewards, finalityAhead,
                   httpVars, poolVars,
                   storeVars, nodeVars>>

----------------------------------------------------------------------------
(* Spec: the running monitor *)

\* the monitor is started at genesis or shortly before the first slot of epoch 1
StartTimes ==
    {s * SlotDuration :
        s \in {0} \cup ((SlotsPerEpoch - StartBefore)..(SlotsPerEpoch - 1))}

\* polling_interval_slots: a few slots, or a whole epoch
Intervals == (1..MaxInterval) \cup {SlotsPerEpoch}

Init ==
    /\ InitScheduler
    /\ InitMonitor
    /\ now \in StartTimes
    /\ intervalSlots \in Intervals
    /\ IdleClient
    /\ genesisResp \in {GenesisError} \cup {GenesisAt(g) : g \in GenesisTimes}
    /\ syncResp = "synced"

Next ==
    \/ Start
    \/ Cancel
    \/ ClockAdvance
    \/ LoopWait
    \/ LoopTimer
    \/ LoopWaitCancelled
    \/ LoopNextEvents
    \/ LoopSelect
    \/ LoopSubmit
    \/ WorkerReceive
    \/ WorkerExit

Spec == Init /\ [][Next]_vars

----------------------------------------------------------------------------
(* SpecClock: the monitor started before or after genesis, its clock read *)
(* second by second                                                       *)

\* the genesis times the Beacon node may report
ClockGenesisTimes == {2 * SlotDuration, 2 * SlotDuration + 7}

\* time.Now() moves on by a second
ClockSecond ==
    /\ now < MaxClock
    /\ now' = now + 1
    /\ UNCHANGED <<schedVars, ctxDone, intervalSlots, started, loopPc, waitVars, evIdx,
                   vIdx, jobChan, liveWorkers, startSlot, ticks, tickJobs, pollAborted,
                   dutiesAt, enqDuties, enqRewards, dutiesAfterRewards, finalityAhead,
                   httpVars, poolVars, storeVars, nodeVars>>

\* runLoop between two calls of WaitForSlotInterval: NextEvents with the slot
\* it was given and the handlers of its events, for the time they take
LoopBody ==
    /\ loopPc = "events"
    /\ loopPc' = "wait"
    /\ tickSlots' = Append(tickSlots, targetSlot)
    /\ UNCHANGED <<schedVars, now, ctxDone, intervalSlots, started, targetSlot, waitFrom, evIdx,
                   vIdx, jobChan, liveWorkers, startSlot, ticks, tickJobs, pollAborted,
                   dutiesAt, enqDuties, enqRewards, dutiesAfterRewards, finalityAhead,
                   httpVars, poolVars, storeVars, nodeVars>>

InitClock ==
    /\ InitScheduler
    /\ InitMonitor
    /\ now = 0
    /\ intervalSlots \in 1..MaxInterval
    /\ IdleClient
    /\ genesisResp \in {GenesisError} \cup {GenesisAt(g) : g \in ClockGenesisTimes}
    /\ syncResp \in SyncResponses

NextClock ==
    \/ Start
    \/ Cancel
    \/ ClockSecond
    \/ LoopWait
    \/ LoopTimer
    \/ LoopWaitCancelled
    \/ LoopBody

SpecClock == InitClock /\ [][NextClock]_vars

----------------------------------------------------------------------------
(* SpecHttp: operations of one Beacon client, one after the other *)

InitHttp ==
    /\ InitScheduler
    /\ InitMonitor
    /\ now = 0
    /\ intervalSlots = 1
    /\ HealthyNode
    /\ InitClient

NextHttp ==
    \/ ReqStart
    \/ StatusJobReturn
    \/ ReqLimiter
    \/ GetSend
    \/ BackoffTimerFires
    \/ GetBackoffDone
    \/ GetBackoffCancelled
    \/ PostSend
    \/ HttpCancel

SpecHttp == InitHttp /\ [][NextHttp]_vars

----------------------------------------------------------------------------
(* SpecPool: the worker pool with runLoop as its producer, processResults as *)
(* its consumer, the root context and Monitor.Stop                           *)

ResultChanCap == 2 * PoolSize

Running == panicWhy = "none"

\* the mutant does not wait for the workers
WorkersDoneNoWait == TRUE

\* wp.wg.Wait() returns
WorkersDone == \A w \in Workers : wPc[w] = "exited"

\* what the pool's steps leave alone: all but the root context, wp.jobChan and
\* the pool's own variables (Drain's are left alone by every step but Drain's)
poolRest == <<schedVars, now, intervalSlots, started, loopPc, waitVars, evIdx, vIdx,
              liveWorkers, startSlot, ticks, tickJobs, pollAborted, dutiesAt, enqDuties,
              enqRewards, dutiesAfterRewards, finalityAhead, httpVars, storeVars,
              nodeVars, drainVars>>

\* Monitor.Start after Initialize: the workers, processResults and runLoop are
\* launched
PoolStart ==
    /\ Running
    /\ prodPc = "none"
    /\ stopPc = "none"
    /\ wPc' = [w \in Workers |-> "idle"]
    /\ consPc' = "run"
    /\ prodPc' = "wait"
    /\ UNCHANGED <<poolRest, ctxDone, jobChan, wJob, resultChan, jobClosed, resultClosed,
                   stopPc, nextJob, panicWhy, stopAfterCancel, startedAfterCancel, poolHist>>

\* main: cancel()
PoolCancel ==
    /\ Running
    /\ ~ctxDone
    /\ ctxDone' = TRUE
    /\ UNCHANGED <<schedVars, monRest, httpVars, poolVars,
                   storeVars, nodeVars>>

\* runLoop: WaitForSlotInterval returns a slot (its timer can fire with the
\* context cancelled too) and an event handler begins its fan-out
ProdTickUpTo(n) ==
    /\ Running
    /\ prodPc = "wait"
    /\ nextJob <= n
    /\ prodPc' = "select"
    /\ UNCHANGED <<poolRest, ctxDone, jobChan, wPc, wJob, resultChan, jobClosed,
                   resultClosed, stopPc, consPc, nextJob, panicWhy, stopAfterCancel,
                   startedAfterCancel, poolHist>>

ProdTick == ProdTickUpTo(MaxJobs)

\* runLoop: WaitForSlotInterval returns ctx.Err() and runLoop returns
ProdExit ==
    /\ Running
    /\ prodPc = "wait"
    /\ ctxDone
    /\ prodPc' = "exited"
    /\ UNCHANGED <<poolRest, ctxDone, jobChan, wPc, wJob, resultChan, jobClosed,
                   resultClosed, stopPc, consPc, nextJob, panicWhy, stopAfterCancel,
                   startedAfterCancel, poolHist>>

\* pollValidators / fetchDuties / fetchRewards: select { case <-ctx.Done():
\* return; default: Submit }
ProdSelect ==
    /\ Running
    /\ prodPc = "select"
    /\ prodPc' = IF ctxDone THEN "wait" ELSE "submit"
    /\ UNCHANGED <<poolRest, ctxDone, jobChan, wPc, wJob, resultChan, jobClosed,
                   resultClosed, stopPc, consPc, nextJob, panicWhy, stopAfterCancel,
                   startedAfterCancel, poolHist>>

\* WorkerPool.Submit: wp.jobChan <- job blocks while the channel is full and
\* panics when the channel is closed; after it the fan-out goes on or the tick
\* ends
ProdSubmitUpTo(n) ==
    /\ Running
    /\ prodPc = "submit"
    /\ IF jobClosed
       THEN /\ panicWhy' = "send on closed channel: jobChan"
            /\ UNCHANGED <<jobChan, nextJob, prodPc>>
       ELSE /\ Len(jobChan) < JobChanCap
            /\ jobChan' = Append(jobChan, nextJob)
            /\ nextJob' = nextJob + 1
            /\ prodPc' \in (IF nextJob + 1 <= n THEN {"select", "wait"}
                            ELSE {"wait"})
            /\ UNCHANGED panicWhy
    /\ UNCHANGED <<poolRest, ctxDone, wPc, wJob, resultChan, jobClosed, resultClosed,
                   stopPc, consPc, stopAfterCancel, startedAfterCancel, poolHist>>

ProdSubmit == ProdSubmitUpTo(MaxJobs)

\* the mutant leaves the job it received in the channel
PeekJob(ch) == ch

\* <-wp.jobChan takes the head of the channel out of it
TakeJob(ch) == Tail(ch)

\* worker: case job, ok := <-wp.jobChan with a job queued (the select may take
\* it with the context cancelled as well)
WReceive(w) ==
    /\ Running
    /\ wPc[w] = "idle"
    /\ jobChan # <<>>
    /\ wJob' = [wJob EXCEPT ![w] = Head(jobChan)]
    /\ jobChan' = TakeJob(jobChan)
    /\ wPc' = [wPc EXCEPT ![w] = "processing"]
    /\ wRecv' = [wRecv EXCEPT ![w] = @ + 1]
    /\ jobHist' = [jobHist EXCEPT ![Head(jobChan)].recv = @ + 1]
    /\ startedAfterCancel' = (startedAfterCancel \/ ctxDone)
    /\ UNCHANGED <<poolRest, ctxDone, resultChan, jobClosed, resultClosed, stopPc,
                   consPc, prodPc, nextJob, panicWhy, stopAfterCancel, wErr,
                   delivered, consErr>>

\* worker: case <-ctx.Done(), in either select: return (wg.Done); a result held
\* is dropped
WExitCancelled(w) ==
    /\ Running
    /\ wPc[w] \in {"idle", "sending"}
    /\ ctxDone
    /\ wPc' = [wPc EXCEPT ![w] = "exited"]
    /\ wJob' = [wJob EXCEPT ![w] = 0]
    /\ wErr' = [wErr EXCEPT ![w] = FALSE]
    /\ jobHist' = IF wPc[w] = "sending"
                  THEN [jobHist EXCEPT ![wJob[w]].dropped = @ + 1]
                  ELSE jobHist
    /\ UNCHANGED <<poolRest, ctxDone, jobChan, resultChan, jobClosed, resultClosed,
                   stopPc, consPc, prodPc, nextJob, panicWhy, stopAfterCancel,
                   startedAfterCancel, wRecv, delivered, consErr>>

\* worker: case job, ok := <-wp.jobChan with ok false: return (wg.Done)
WExitClosed(w) ==
    /\ Running
    /\ wPc[w] = "idle"
    /\ jobClosed
    /\ jobChan = <<>>
    /\ wPc' = [wPc EXCEPT ![w] = "exited"]
    /\ UNCHANGED <<poolRest, ctxDone, jobChan, wJob, resultChan, jobClosed, resultClosed,
                   stopPc, consPc, prodPc, nextJob, panicWhy, stopAfterCancel,
                   startedAfterCancel, poolHist>>

\* the mutant ends the worker when Process returned an error
WorkerAfterProcessStopOnError(err) == IF err THEN "exited" ELSE "sending"

\* worker: after Process the Result is built, Error: err included, and the
\* worker goes to the select that sends it
WorkerAfterProcess(err) == "sending"

\* worker: result := Result{Job: job, Data: data, Error: err} (worker and seq
\* are not in the Result: they tell whose result it is and which of the
\* worker's jobs, counted in the order of receipt, it belongs to)
ResultOf(w) == [job |-> wJob[w], worker |-> w, seq |-> wRecv[w], err |-> wErr[w]]

\* the mutant puts the result in front of the results that wait
SendResultFront(ch, r) == <<r>> \o ch

\* wp.resultChan <- result: a channel is a FIFO queue
SendResult(ch, r) == Append(ch, r)

\* worker: data, err := wp.processor.Process(ctx, job) returns err
ProcessReturns(w, err) ==
    /\ Running
    /\ wPc[w] = "processing"
    /\ wErr' = [wErr EXCEPT ![w] = err]
    /\ wPc' = [wPc EXCEPT ![w] = WorkerAfterProcess(err)]
    /\ jobHist' = [jobHist EXCEPT ![wJob[w]].proc = @ + 1]
    /\ UNCHANGED <<poolRest, ctxDone, jobChan, wJob, resultChan, jobClosed, resultClosed,
                   stopPc, consPc, prodPc, nextJob, panicWhy, stopAfterCancel,
                   startedAfterCancel, wRecv, delivered, consErr>>

\* worker: Process returns a nil error
WProcess(w) == ProcessReturns(w, FALSE)

\* worker: Process returns an error (the fetch of the job failed)
WProcessFailed(w) == ProcessReturns(w, TRUE)

\* worker: case wp.resultChan <- result, which blocks while the channel is full
\* and panics when the channel is closed
WSend(w) ==
    /\ Running
    /\ wPc[w] = "sending"
    /\ IF resultClosed
       THEN /\ panicWhy' = "send on closed channel: resultChan"
            /\ UNCHANGED <<resultChan, wPc, wJob, wErr, jobHist>>
       ELSE /\ Len(resultChan) < ResultChanCap
            /\ resultChan' = SendResult(resultChan, ResultOf(w))
            /\ jobHist' = [jobHist EXCEPT ![wJob[w]].sent = @ + 1]
            /\ wPc' = [wPc EXCEPT ![w] = "idle"]
            /\ wJob' = [wJob EXCEPT ![w] = 0]
            /\ wErr' = [wErr EXCEPT ![w] = FALSE]
            /\ UNCHANGED panicWhy
    /\ UNCHANGED <<poolRest, ctxDone, jobChan, jobClosed, resultClosed, stopPc, consPc,
                   prodPc, nextJob, stopAfterCancel, startedAfterCancel, wRecv,
                   delivered, consErr>>

\* processResults after a result: "Job failed" is logged and the loop
\* continues, or logResult and the next iteration
ConsAfterResult(err) == "run"

\* processResults: case result, ok := <-m.workerPool.Results() with a result
ConsReceive ==
    /\ Running
    /\ consPc = "run"
    /\ resultChan # <<>>
    /\ resultChan' = Tail(resultChan)
    /\ delivered' = [delivered EXCEPT ![Head(resultChan).worker] = Head(resultChan).seq]
    /\ consErr' = Head(resultChan).err
    /\ jobHist' = [jobHist EXCEPT ![Head(resultChan).job].cons = @ + 1]
    /\ consPc' = ConsAfterResult(Head(resultChan).err)
    /\ UNCHANGED <<poolRest, ctxDone, jobChan, wPc, wJob, jobClosed, resultClosed,
                   stopPc, prodPc, nextJob, panicWhy, stopAfterCancel,
                   startedAfterCancel, wErr, wRecv>>

\* processResults: case <-ctx.Done(), or the result channel closed and empty
ConsExit ==
    /\ Running
    /\ consPc = "run"
    /\ ctxDone \/ (resultClosed /\ resultChan = <<>>)
    /\ consPc' = "exited"
    /\ UNCHANGED <<poolRest, ctxDone, jobChan, wPc, wJob, resultChan, jobClosed,
                   resultClosed, stopPc, prodPc, nextJob, panicWhy, stopAfterCancel,
                   startedAfterCancel, poolHist>>

\* Monitor.Stop, WorkerPool.Stop: close(wp.jobChan)
StopCloseJobs ==
    /\ Running
    /\ stopPc = "none"
    /\ prodPc # "none"
    /\ jobClosed' = TRUE
    /\ stopPc' = "waitWorkers"
    /\ stopAfterCancel' = ctxDone
    /\ UNCHANGED <<poolRest, ctxDone, jobChan, wPc, wJob, resultChan, resultClosed,
                   consPc, prodPc, nextJob, panicWhy, startedAfterCancel, poolHist>>

\* WorkerPool.Stop: wp.wg.Wait() returns, close(wp.resultChan)
StopCloseResults ==
    /\ Running
    /\ stopPc = "waitWorkers"
    /\ WorkersDone
    /\ resultClosed' = TRUE
    /\ stopPc' = "waitMonitor"
    /\ UNCHANGED <<poolRest, ctxDone, jobChan, wPc, wJob, resultChan, jobClosed,
                   consPc, prodPc, nextJob, panicWhy, stopAfterCancel,
                   startedAfterCancel, poolHist>>

\* Monitor.Stop: m.wg.Wait() returns (runLoop and processResults are done)
StopReturn ==
    /\ Running
    /\ stopPc = "waitMonitor"
    /\ prodPc = "exited"
    /\ consPc = "exited"
    /\ stopPc' = "returned"
    /\ UNCHANGED <<poolRest, ctxDone, jobChan, wPc, wJob, resultChan, jobClosed,
                   resultClosed, consPc, prodPc, nextJob, panicWhy, stopAfterCancel,
                   startedAfterCancel, poolHist>>

\* what Drain's steps leave alone
drainRest == <<schedVars, monVars, httpVars, storeVars, nodeVars, wPc, wJob, jobClosed,
               resultClosed, stopPc, consPc, prodPc, nextJob, panicWhy, stopAfterCancel,
               startedAfterCancel, poolHist>>

\* WorkerPool.Drain is called after WorkerPool.Stop has returned
DrainStart ==
    /\ Running
    /\ stopPc \in {"waitMonitor", "returned"}
    /\ drainPc = "none"
    /\ drainPc' = "run"
    /\ drainFrom' = resultChan
    /\ drainAlone' = (consPc = "exited")
    /\ UNCHANGED <<drainRest, resultChan, drained>>

\* Drain: for result := range wp.resultChan { results = append(results, result) }
DrainReceive ==
    /\ Running
    /\ drainPc = "run"
    /\ resultChan # <<>>
    /\ drained' = Append(drained, Head(resultChan))
    /\ resultChan' = Tail(resultChan)
    /\ UNCHANGED <<drainRest, drainPc, drainFrom, drainAlone>>

\* the mutant's range ends when the channel is closed, whatever it holds
RangeEndsWhenClosed(closed, ch) == closed

\* a range over a channel ends when the channel is closed and empty
RangeEnds(closed, ch) == closed /\ ch = <<>>

\* Drain: the range ends, return results
DrainReturn ==
    /\ Running
    /\ drainPc = "run"
    /\ RangeEnds(resultClosed, resultChan)
    /\ drainPc' = "returned"
    /\ UNCHANGED <<drainRest, resultChan, drained, drainFrom, drainAlone>>

InitPool ==
    /\ InitScheduler
    /\ InitMonitor
    /\ now = 0
    /\ intervalSlots = 1
    /\ HealthyNode
    /\ IdleClient

NextPool ==
    \/ PoolStart
    \/ PoolCancel
    \/ ProdTick
    \/ ProdExit
    \/ ProdSelect
    \/ ProdSubmit
    \/ \E w \in Workers : WReceive(w)
    \/ \E w \in Workers : WExitCancelled(w)
    \/ \E w \in Workers : WExitClosed(w)
    \/ \E w \in Workers : WProcess(w)
    \/ \E w \in Workers : WSend(w)
    \/ ConsReceive
    \/ ConsExit
    \/ StopCloseJobs
    \/ StopCloseResults
    \/ StopReturn

SpecPool == InitPool /\ [][NextPool]_vars

\* the Go scheduler runs every goroutine that can take a step: a worker, the
\* consumer and the tick loop each go on when they are not blocked. A select
\* with several ready cases takes any of them, so fairness is on the select as
\* a whole; WaitForSlotInterval cannot lose to its timer for ever once the
\* context is cancelled (a timer fires once per slot), hence SF on ProdExit.
\* cancel() and Monitor.Stop are main's, which waits for a signal: no fairness.
PoolFairness ==
    /\ SF_vars(ProdExit)
    /\ WF_vars(ProdSelect)
    /\ WF_vars(ProdSubmit)
    /\ \A w \in Workers :
           /\ WF_vars(WReceive(w) \/ WExitCancelled(w) \/ WExitClosed(w))
           /\ WF_vars(WProcess(w))
           /\ WF_vars(WSend(w) \/ WExitCancelled(w))
    /\ WF_vars(ConsReceive \/ ConsExit)
    /\ WF_vars(StopCloseResults)
    /\ WF_vars(StopReturn)

SpecPoolLive == InitPool /\ [][NextPool]_vars /\ PoolFairness

\* the pool stopped and drained, over a shorter run of the tick loop
NextStop ==
    \/ PoolStart
    \/ PoolCancel
    \/ ProdTickUpTo(MaxLiveJobs)
    \/ ProdExit
    \/ ProdSelect
    \/ ProdSubmitUpTo(MaxLiveJobs)
    \/ \E w \in Workers : WReceive(w)
    \/ \E w \in Workers : WExitCancelled(w)
    \/ \E w \in Workers : WExitClosed(w)
    \/ \E w \in Workers : WProcess(w)
    \/ \E w \in Workers : WSend(w)
    \/ ConsReceive
    \/ ConsExit
    \/ StopCloseJobs
    \/ StopCloseResults
    \/ StopReturn
    \/ DrainStart
    \/ DrainReceive
    \/ DrainReturn

\* the goroutine that called Drain goes on like any other
SpecStopLive ==
    InitPool /\ [][NextStop]_vars /\ PoolFairness /\ WF_vars(DrainReceive \/ DrainReturn)

----------------------------------------------------------------------------
(* SpecResults: the running pool, jobs that fail included, up to the *)
(* cancellation of the root context                                  *)

InitResults == InitPool

NextResults ==
    \/ PoolStart
    \/ PoolCancel
    \/ ProdTick
    \/ ProdExit
    \/ ProdSelect
    \/ ProdSubmit
    \/ \E w \in Workers : WReceive(w)
    \/ \E w \in Workers : WExitCancelled(w)
    \/ \E w \in Workers : WProcess(w)
    \/ \E w \in Workers : WProcessFailed(w)
    \/ \E w \in Workers : WSend(w)
    \/ ConsReceive
    \/ ConsExit

SpecResults == InitResults /\ [][NextResults]_vars

\* fairness of the Go scheduler over the goroutines of the running pool: the
\* workers and processResults go on whenever one of the cases of their select
\* is ready; runLoop's ticks depend on the clock, cancel() on a signal
ResultsFairness ==
    /\ \A w \in Workers :
           /\ WF_vars(WReceive(w) \/ WExitCancelled(w))
           /\ WF_vars(WProcess(w) \/ WProcessFailed(w))
           /\ WF_vars(WSend(w) \/ WExitCancelled(w))
    /\ WF_vars(ConsReceive \/ ConsExit)

\* the running pool over a shorter run of the tick loop
NextResultsLive ==
    \/ PoolStart
    \/ PoolCancel
    \/ ProdTickUpTo(MaxLiveJobs)
    \/ ProdExit
    \/ ProdSelect
    \/ ProdSubmitUpTo(MaxLiveJobs)
    \/ \E w \in Workers : WReceive(w)
    \/ \E w \in Workers : WExitCancelled(w)
    \/ \E w \in Workers : WProcess(w)
    \/ \E w \in Workers : WProcessFailed(w)
    \/ \E w \in Workers : WSend(w)
    \/ ConsReceive
    \/ ConsExit

SpecResultsLive == InitResults /\ [][NextResultsLive]_vars /\ ResultsFairness

----------------------------------------------------------------------------
(* SpecJobs: Monitor.Process called with one job after the other, over the *)
(* tables of the repository                                                *)

InitJobs ==
    /\ InitScheduler
    /\ InitMonitor
    /\ now = 0
    /\ intervalSlots = 1
    /\ HealthyNode
    /\ IdleClient

NextJobs ==
    \/ JobFetch
    \/ JobSave
    \/ JobSavePenalty
    \/ JobReturn

SpecJobs == InitJobs /\ [][NextJobs]_vars

----------------------------------------------------------------------------
(* SpecStore: the Save functions of the repository called with the same *)
(* and with different objects, in any order                              *)

InitStoreCalls == InitJobs

NextStore ==
    \/ \E o \in DOMAIN StoreObjects : SaveValidatorSnapshot(o)
    \/ \E o \in DOMAIN StoreObjects : SaveAttestationDuty(o)
    \/ \E o \in DOMAIN StoreObjects : SaveAttestationReward(o)

SpecStore == InitStoreCalls /\ [][NextStore]_vars

----------------------------------------------------------------------------
(* SpecBackoff: one Backoff, its methods called in any order *)

BackoffNextDelay ==
    /\ bAttempts < MaxBackoffAttempts
    /\ \E r \in JitterDraws : NextDelay(r)
    /\ bOp' = "NextDelay"
    /\ UNCHANGED <<schedVars, monVars, poolVars, storeVars, nodeVars,
                   reqVars, bWaited, bTimer, bResetFrom, callLog, jobVars>>

\* Backoff.Wait: NextDelay, then the timer fires (true) or, the context being
\* cancelled, ctx.Done() is taken (false)
BackoffWait ==
    /\ bAttempts < MaxBackoffAttempts
    /\ \E r \in JitterDraws : NextDelay(r)
    /\ bOp' = "Wait"
    /\ bWaited' \in (IF ctxDone THEN {"true", "false"} ELSE {"true"})
    /\ bTimer' \in (IF bWaited' = "true" THEN {TRUE} ELSE BOOLEAN)
    /\ UNCHANGED <<schedVars, monVars, poolVars, storeVars, nodeVars,
                   reqVars, bResetFrom, callLog, jobVars>>

\* Backoff.Reset
BackoffReset ==
    /\ bAttempts' = 0
    /\ bResetFrom' = bAttempts
    /\ bOp' = "Reset"
    /\ UNCHANGED <<schedVars, monVars, poolVars, storeVars, nodeVars,
                   reqVars, bCfg, bDelay, bIndex, bWaited, bTimer,
                   callLog, jobVars>>

\* the context handed to Wait is cancelled
BackoffCancel ==
    /\ ~ctxDone
    /\ ctxDone' = TRUE
    /\ UNCHANGED <<schedVars, monRest, httpVars, poolVars,
                   storeVars, nodeVars>>

InitBackoff ==
    /\ InitScheduler
    /\ InitMonitor
    /\ now = 0
    /\ intervalSlots = 1
    /\ HealthyNode
    /\ maxRetries = 1
    /\ urlOk = TRUE
    /\ InitRequest
    /\ \E cfg \in BackoffConfigs : NewBackoff(cfg)

NextBackoff ==
    \/ BackoffNextDelay
    \/ BackoffWait
    \/ BackoffReset
    \/ BackoffCancel

SpecBackoff == InitBackoff /\ [][NextBackoff]_vars

----------------------------------------------------------------------------
(* SpecSched: the scheduler alone, NextEvents called with any slot *)

\* the events of the list that are EPOCH_FINALIZED events of epoch e
FinalizedOf(evs, e) ==
    SelectSeq(evs, LAMBDA ev : ev.type = "EPOCH_FINALIZED" /\ ev.epoch = e)

\* the events of the list from which processEvent builds a REWARDS job of epoch e
RewardsJobsOf(evs, e) ==
    SelectSeq(evs, LAMBDA ev : /\ JobOf(ev, 1).type = "REWARDS"
                               /\ JobOf(ev, 1).epoch = e)

\* SpecSched's record of that call: what it read and what it was given
RecordCall(slot, resp) ==
    LET nb == Len(EventsOfType(tickEvents', "EPOCH_BOUNDARY"))
    IN  /\ finResp' = resp
        /\ finalizedCount' =
              [e \in DOMAIN finalizedCount |->
                  Min(2, finalizedCount[e] + Len(FinalizedOf(tickEvents', e)))]
        /\ rewardsCount' =
              [e \in DOMAIN rewardsCount |->
                  Min(2, rewardsCount[e] + Len(RewardsJobsOf(tickEvents', e)))]
        /\ prevEpoch' = lastEpoch
        /\ prevFinal' = lastFinalEpoch
        /\ monotone' = (monotone /\ (tickEvents = <<>> \/ slot > tickSlot))
        /\ boundaryCount' =
              IF nb > 0 /\ slot \in DOMAIN boundaryCount
              THEN [boundaryCount EXCEPT ![slot] = Min(2, @ + nb)]
              ELSE boundaryCount

SchedNextEvents ==
    \E slot \in CallSlots, resp \in FinalityResponses :
        /\ CallNextEvents(slot, resp)
        /\ RecordCall(slot, resp)
        /\ UNCHANGED <<genesisTime, monVars, httpVars, poolVars,
                   storeVars, nodeVars>>

InitSched ==
    /\ InitScheduler
    /\ InitMonitor
    /\ now = 0
    /\ intervalSlots = 1
    /\ HealthyNode
    /\ IdleClient

NextSched == SchedNextEvents

SpecSched == InitSched /\ [][NextSched]_vars

----------------------------------------------------------------------------
(* Claims about Scheduler.NextEvents, checked under SpecSched *)

FinalizedOfTick == EventsOfType(tickEvents, "EPOCH_FINALIZED")
BoundaryOfTick == EventsOfType(tickEvents, "EPOCH_BOUNDARY")
Called == tickEvents # <<>>

\* C1: when the finality lookup of a NextEvents call returns F above the
\* last_finalized_epoch L read on entry, the returned list holds exactly one
\* EPOCH_FINALIZED event for every epoch of L+1..F and no other finalized
\* event (F-L in all), and last_finalized_epoch is F afterwards; when F <= L
\* the list holds no EPOCH_FINALIZED event and last_finalized_epoch stays L.
C1_FinalizationCatchUp ==
    (Called /\ ~finResp.err) =>
        IF finResp.epoch > prevFinal
        THEN /\ Len(FinalizedOfTick) = finResp.epoch - prevFinal
             /\ \A e \in (prevFinal + 1)..finResp.epoch :
                   Cardinality({i \in DOMAIN FinalizedOfTick :
                                   FinalizedOfTick[i].epoch = e}) = 1
             /\ lastFinalEpoch = finResp.epoch
        ELSE /\ FinalizedOfTick = <<>>
             /\ lastFinalEpoch = prevFinal

\* a catch-up over several epochs from a non-zero last_finalized_epoch
C1_Witness ==
    /\ Called /\ ~finResp.err
    /\ prevFinal >= 1
    /\ finResp.epoch >= prevFinal + 2
    /\ Len(FinalizedOfTick) >= 2

\* C3: last_finalized_epoch never decreases, whatever the finality lookups
\* return (a larger, equal or smaller epoch, or an error).
C3_LastFinalizedMonotone == [][lastFinalEpoch' >= lastFinalEpoch]_vars

\* a lookup that reported an epoch below last_finalized_epoch has been handled
C3_Witness ==
    /\ Called /\ ~finResp.err
    /\ finResp.epoch < prevFinal
    /\ lastFinalEpoch = prevFinal

\* C4: an EPOCH_BOUNDARY event is returned only for a slot s with s mod 32 = 0
\* whose epoch differs from the last_epoch_boundary read on entry; there is then
\* exactly one, with slot s and epoch floor(s/32)+1, and last_epoch_boundary is
\* floor(s/32) afterwards. While the slots of the calls strictly increase no
\* boundary slot gets two EPOCH_BOUNDARY events, and a call that repeats the
\* slot of the call before it returns none.
C4_BoundaryState ==
    /\ BoundaryOfTick # <<>> =>
          /\ tickSlot % SlotsPerEpoch = 0
          /\ SlotToEpoch(tickSlot) # prevEpoch
          /\ BoundaryOfTick =
                <<[type |-> "EPOCH_BOUNDARY", slot |-> tickSlot,
                   epoch |-> (tickSlot \div 32) + 1]>>
          /\ lastEpoch = tickSlot \div 32
    /\ monotone => \A s \in BoundarySlots : boundaryCount[s] <= 1

C4_RepeatedSlot ==
    (Called /\ tickSlot' = tickSlot) =>
        EventsOfType(tickEvents', "EPOCH_BOUNDARY") = <<>>

C4_EpochBoundary == [](C4_BoundaryState) /\ [][C4_RepeatedSlot]_vars

\* a boundary slot whose event was emitted once, called again: nothing emitted
C4_Witness ==
    /\ Called
    /\ tickSlot % SlotsPerEpoch = 0 /\ tickSlot > 0
    /\ boundaryCount[tickSlot] = 1
    /\ prevEpoch = SlotToEpoch(tickSlot)
    /\ BoundaryOfTick = <<>>

----------------------------------------------------------------------------
(* Claims about the running monitor, checked under Spec *)

EventRank(t) ==
    CASE t = "SLOT_POLL" -> 1
      [] t = "EPOCH_BOUNDARY" -> 2
      [] t = "EPOCH_FINALIZED" -> 3

JobRank(t) ==
    CASE t = "STATUS" -> 1
      [] t = "DUTIES" -> 2
      [] t = "REWARDS" -> 3

JobsOfType(jobs, t) == SelectSeq(jobs, LAMBDA j : j.type = t)

\* C2: the list NextEvents returns starts with its one SLOT_POLL event, then
\* holds at most one EPOCH_BOUNDARY event, then the EPOCH_FINALIZED events in
\* strictly ascending epoch order; the jobs the monitor has submitted for the
\* tick are in that order too: STATUS jobs, then the DUTIES job, then the
\* REWARDS jobs by ascending epoch.
C2_TickOrder ==
    /\ Called =>
          /\ tickEvents[1].type = "SLOT_POLL"
          /\ Len(EventsOfType(tickEvents, "SLOT_POLL")) = 1
          /\ Len(BoundaryOfTick) <= 1
          /\ \A i, j \in DOMAIN tickEvents :
                i < j =>
                   /\ EventRank(tickEvents[i].type) <= EventRank(tickEvents[j].type)
                   /\ (tickEvents[i].type = "EPOCH_FINALIZED"
                          => tickEvents[i].epoch < tickEvents[j].epoch)
    /\ \A i, j \in DOMAIN tickJobs :
          i < j =>
             /\ JobRank(tickJobs[i].type) <= JobRank(tickJobs[j].type)
             /\ (tickJobs[i].type = "REWARDS" => tickJobs[i].epoch < tickJobs[j].epoch)
    /\ Len(JobsOfType(tickJobs, "DUTIES")) <= 1

\* a tick with all three kinds of event, every job of it submitted
C2_Witness ==
    /\ Called
    /\ BoundaryOfTick # <<>>
    /\ Len(FinalizedOfTick) >= 2
    /\ Len(tickJobs) = Len(Validators) + 1 + Len(FinalizedOfTick)

\* C5: as long as the root context is live, every epoch boundary 32*e (e >= 1)
\* that lies after the slot at which the tick loop was launched and before the
\* slot of a tick the loop has reached has had exactly one DUTIES job submitted
\* at it, whatever polling_interval_slots is and however long the ticks took.
C5_DutiesAtEveryBoundary ==
    \A b \in BoundarySlots :
        (/\ b >= SlotsPerEpoch
         /\ started = "running" /\ ~ctxDone
         /\ startSlot < b
         /\ Called /\ tickSlot > b)
        => dutiesAt[b] = 1

\* the STATUS jobs that a complete fan-out of the tick's SLOT_POLL event submits
FullFanOut ==
    [i \in 1..Len(Validators) |->
        [type |-> "STATUS", validator |-> Validators[i],
         slot |-> tickSlot, epoch |-> tickSlot \div 32]]

StatusOfTick == JobsOfType(tickJobs, "STATUS")

\* pollValidators has returned for the SLOT_POLL event of the latest tick
PollReturned == Called /\ evIdx > 1

\* C6 as stated: once the SLOT_POLL event of a tick has been handled, exactly
\* |V| STATUS jobs have been submitted for it, one per configured validator
\* index, each with the event's slot and epoch.
C6_FanOutAlways == PollReturned => StatusOfTick = FullFanOut

\* C6, amended: the STATUS jobs submitted for a tick are always the jobs of the
\* first validators of the configured list, in order, each with the event's slot
\* and epoch; when pollValidators has returned without finding the root context
\* cancelled they are the jobs of all |V| validators, and when it returned
\* because the context was cancelled they are fewer.
C6_FanOutUnlessCancelled ==
    /\ Len(StatusOfTick) <= Len(FullFanOut)
    /\ StatusOfTick = SubSeq(FullFanOut, 1, Len(StatusOfTick))
    /\ PollReturned =>
          IF pollAborted
          THEN Len(StatusOfTick) < Len(Validators)
          ELSE StatusOfTick = FullFanOut

\* a fan-out that ran to its end
C6_Witness ==
    /\ PollReturned
    /\ ~pollAborted
    /\ Len(StatusOfTick) = Len(Validators)
    /\ Len(Validators) >= 2

\* C7: if no finality response has exceeded the epoch of its tick's slot, no
\* DUTIES job of an epoch has been submitted after the REWARDS job of that
\* epoch: where both exist, the DUTIES job came first.
C7_DutiesBeforeRewards == ~finalityAhead => ~dutiesAfterRewards

\* an epoch with both its DUTIES job and its REWARDS job submitted
C7_Witness ==
    /\ ~finalityAhead
    /\ enqDuties \cap enqRewards # {}

\* the events of the latest tick whose handler has returned
Handled == IF Called THEN {i \in DOMAIN tickEvents : i < evIdx} ELSE {}

\* the job type an event of the epoch kinds maps to
JobTypeFor(evType) == IF evType = "EPOCH_BOUNDARY" THEN "DUTIES" ELSE "REWARDS"

\* the submitted jobs of the tick that carry what event i carries
JobsFor(i) ==
    {k \in DOMAIN tickJobs :
        /\ tickJobs[k].type = JobTypeFor(tickEvents[i].type)
        /\ tickJobs[k].slot = tickEvents[i].slot
        /\ tickJobs[k].epoch = tickEvents[i].epoch
        /\ tickJobs[k].validator = 0}

EpochEvents == {i \in DOMAIN tickEvents : tickEvents[i].type # "SLOT_POLL"}

\* every DUTIES and REWARDS job submitted for the tick is the job of one of
\* the tick's events, and the DUTIES job of the boundary at slot 32*e requests
\* epoch e + 1
C37_JobsFromEvents ==
    \A k \in DOMAIN tickJobs :
        tickJobs[k].type # "STATUS" =>
            /\ \E i \in EpochEvents : k \in JobsFor(i)
            /\ tickJobs[k].type = "DUTIES" =>
                   /\ tickJobs[k].slot % 32 = 0
                   /\ tickJobs[k].epoch = tickJobs[k].slot \div 32 + 1

\* C37 as stated: each EPOCH_BOUNDARY event that has been handled was mapped
\* to exactly one DUTIES job and each EPOCH_FINALIZED event to exactly one
\* REWARDS job for the whole validator set, the job carrying the event's slot
\* and epoch unchanged.
C37_OneJobPerEvent ==
    /\ C37_JobsFromEvents
    /\ \A i \in Handled \cap EpochEvents : Cardinality(JobsFor(i)) = 1

\* C37, amended: an EPOCH_BOUNDARY event is mapped to at most one DUTIES job
\* and an EPOCH_FINALIZED event to at most one REWARDS job for the whole
\* validator set, the job carrying the event's slot and epoch unchanged (the
\* DUTIES job of the boundary at slot 32*e requests epoch e + 1); the event has
\* exactly one job when its handler returned with the root context live, and
\* none when the handler found the context cancelled.
C37_OneJobUnlessCancelled ==
    /\ C37_JobsFromEvents
    /\ \A i \in EpochEvents : Cardinality(JobsFor(i)) <= 1
    /\ \A i \in Handled \cap EpochEvents : ~ctxDone => Cardinality(JobsFor(i)) = 1
    /\ \A i \in EpochEvents : (i >= evIdx /\ loopPc # "submit") => JobsFor(i) = {}

\* a tick at an epoch boundary with two finalized epochs, all its events
\* handled with the context live: one DUTIES job and two REWARDS jobs
C37_Witness ==
    /\ ~ctxDone
    /\ Called
    /\ Handled = DOMAIN tickEvents
    /\ BoundaryOfTick # <<>>
    /\ Len(FinalizedOfTick) = 2
    /\ Len(JobsOfType(tickJobs, "DUTIES")) = 1
    /\ Len(JobsOfType(tickJobs, "REWARDS")) = 2

\* C24: runLoop returns only when the root context is cancelled: a failed
\* finality lookup, the event generation and the jobs of a tick never make it
\* return while the context is live.
C24_LoopEndsOnlyOnCancel == loopPc = "done" => ctxDone

\* the finality lookup of the first tick failed and the loop, its context
\* live, is waiting for its second tick
C24_Witness ==
    /\ ~ctxDone
    /\ ticks = 2
    /\ loopPc = "sleep"
    /\ finResp.err
    /\ tickJobs # <<>>

----------------------------------------------------------------------------
(* Claims about the Beacon client, checked under SpecHttp *)

IsGet == reqMethod = "GET"
IsPost == reqMethod = "POST"
Answered == httpAttempts > 0
Retryable(resp) == resp.err \/ resp.status \in {429, 503}

\* C8 as stated: a GET operation performs at most max_retries HTTP attempts in
\* total, whatever transport errors and 429/503 responses it meets.
C8_AtMostMaxRetries == IsGet => httpAttempts <= maxRetries

\* C8, amended: a GET operation performs at most max_retries + 1 HTTP attempts
\* in total (the first attempt and at most max_retries retries), whatever
\* transport errors and 429/503 responses it meets.
C8_AtMostMaxRetriesPlusOne == IsGet => httpAttempts <= maxRetries + 1

\* a GET whose every attempt met a retryable failure has used them all
C8_Witness ==
    /\ IsGet
    /\ reqPc = "done"
    /\ Retryable(lastResp)
    /\ httpAttempts = maxRetries + 1
    /\ bAttempts = maxRetries

\* a further attempt of a GET follows a transport error or a 429/503 only
C9_FurtherAttempt ==
    (IsGet /\ Answered /\ httpAttempts' = httpAttempts + 1) => Retryable(lastResp)

\* any other status but 200 ends the GET at once with an error, without a
\* backoff wait after it
C9_OtherStatus ==
    (IsGet /\ Answered /\ ~Retryable(lastResp) /\ lastResp.status # 200)
        => /\ reqPc = "done"
           /\ reqResult = "unexpected status"
           /\ bAttempts = httpAttempts - 1

\* a 200 ends the GET with success
C9_OkSucceeds ==
    (IsGet /\ Answered /\ ~lastResp.err /\ lastResp.status = 200)
        => /\ reqPc = "done"
           /\ reqResult = "ok"

\* a 200 ends the GET without a backoff wait: with success when the body
\* decodes, with a decode error when it does not
C9_OkEnds ==
    (IsGet /\ Answered /\ ~lastResp.err /\ lastResp.status = 200)
        => /\ reqPc = "done"
           /\ bAttempts = httpAttempts - 1
           /\ reqResult = IF lastResp.decodes THEN "ok" ELSE "failed to decode response"

\* C9 as stated: in a GET operation a further attempt is made only after a
\* transport error or a 429/503 response; any other non-200 status ends the
\* operation immediately with an error and no further attempt or backoff wait;
\* a 200 response ends it with success.
C9_RetryPolicy ==
    [](C9_OtherStatus /\ C9_OkSucceeds) /\ [][C9_FurtherAttempt]_vars

\* C9, amended: in a GET operation a further attempt is made only after a
\* transport error or a 429/503 response; any other non-200 status ends the
\* operation immediately with an error and no further attempt or backoff wait;
\* a 200 response ends it with no further attempt or backoff wait, with success
\* if the body decodes and with a decode error if it does not.
C9_RetryPolicyDecode ==
    [](C9_OtherStatus /\ C9_OkEnds) /\ [][C9_FurtherAttempt]_vars

\* a GET retried once and then answered 200 with a body that does not decode
C9_Witness ==
    /\ IsGet
    /\ reqPc = "done"
    /\ httpAttempts = 2
    /\ bAttempts = 1
    /\ lastResp.status = 200
    /\ reqResult = "failed to decode response"

\* a POST never waits on a backoff, never sends twice, and a transport error
\* or a non-200 status ends it with an error
C10_NoRetry ==
    IsPost =>
        /\ bAttempts = 0
        /\ httpAttempts <= 1
        /\ (Answered /\ (lastResp.err \/ lastResp.status # 200))
              => (reqPc = "done" /\ reqResult \notin {"ok", "none"})

\* C10 as stated: a POST operation makes exactly one HTTP attempt; a transport
\* error or any non-200 status, 429 and 503 included, fails the operation
\* without a retry or backoff wait.
C10_ExactlyOneAttempt ==
    /\ C10_NoRetry
    /\ (IsPost /\ reqPc = "done") => httpAttempts = 1

\* C10, amended: a POST operation makes at most one HTTP attempt: none when the
\* rate-limiter wait fails (cancelled context) or the request cannot be built,
\* exactly one otherwise; a transport error or any non-200 status, 429 and 503
\* included, fails the operation without a retry or backoff wait.
C10_AtMostOneAttempt ==
    /\ C10_NoRetry
    /\ (IsPost /\ reqPc = "done")
          => (httpAttempts = 0
                 <=> reqResult \in {"rate limiter error", "failed to create request"})
    /\ (IsPost /\ reqPc = "done") => httpAttempts \in {0, 1}

\* a POST answered 503 has failed after its single attempt
C10_Witness ==
    /\ IsPost
    /\ reqPc = "done"
    /\ httpAttempts = 1
    /\ ~lastResp.err
    /\ lastResp.status = 503
    /\ reqResult = "unexpected status"

\* attempts started never outnumber tokens acquired; a failed acquisition ends
\* the operation with the attempts it had
C11_TokensCoverAttempts ==
    /\ httpAttempts <= tokens
    /\ reqResult = "rate limiter error" => (reqPc = "done" /\ httpAttempts = tokens)

\* an attempt is sent on a token acquired for it since the attempt before
C11_OwnToken ==
    httpAttempts' = httpAttempts + 1 => (tokens' = tokens /\ tokens = httpAttempts + 1)

\* C11: every HTTP attempt of the client, each retry of a GET and every POST
\* included, follows its own successful token acquisition; the attempts started
\* never exceed the tokens acquired; when the acquisition fails (cancellation)
\* no request is sent.
C11_TokenPerAttempt == [](C11_TokensCoverAttempts) /\ [][C11_OwnToken]_vars

\* a GET whose retry was sent on a second token
C11_Witness ==
    /\ IsGet
    /\ httpAttempts = 2
    /\ tokens = 2
    /\ bAttempts >= 1

\* the operation is a GET answered 503, 503 and then 200 with a body that
\* decodes
Got503503200 ==
    /\ IsGet
    /\ Len(respLog) = 3
    /\ \A i \in 1..2 : ~respLog[i].err /\ respLog[i].status = 503
    /\ ~respLog[3].err /\ respLog[3].status = 200 /\ respLog[3].decodes

\* two waits on one Backoff, at attempt indices 0 and 1, the second within
\* 160..240 ms; the GET has succeeded after its third attempt; the status job,
\* once returned, has saved its snapshot once
C12_TwoWaitsThenRow ==
    Got503503200 =>
        /\ Len(waitLog) = 2
        /\ waitLog[1].index = 0
        /\ waitLog[1].delay = 100
        /\ waitLog[2].index = 1
        /\ waitLog[2].delay \in 160..240
        /\ bAttempts = 2
        /\ httpAttempts = 3
        /\ reqPc = "done"
        /\ reqResult = "ok"
        /\ jobPc = "get" => (saveCalls = 0 /\ snapshotRows = 0)
        /\ jobPc = "returned" => (saveCalls = 1 /\ snapshotRows <= 1)

\* a new operation starts on a new Backoff, at attempt index 0
C12_NewGetFromZero ==
    (reqPc \in {"idle", "done"} /\ reqPc' = "limiter")
        => (bAttempts' = 0 /\ waitLog' = <<>>)

\* C12: a GET that receives 503, 503, 200 makes exactly two backoff waits on
\* the same Backoff, the first at attempt index 0 and the second at attempt
\* index 1 (160..240 ms with the defaults); its third attempt succeeds and the
\* snapshot row is written once; a new GET starts again from attempt index 0.
C12_RetryScenario == [](C12_TwoWaitsThenRow) /\ [][C12_NewGetFromZero]_vars

\* the status job of such a GET has returned with its row in the store
C12_Witness ==
    /\ Got503503200
    /\ jobPc = "returned"
    /\ saveCalls = 1
    /\ snapshotRows = 1
    /\ waitLog[2].delay = 160

\* ShouldRetry is true of 429 and 503 and of no other status code
C13_Classifier ==
    \A st \in StatusCodes : ShouldRetry(st) <=> st \in {429, 503}

\* a GET treats a response as retryable (waits, or gives up with the retryable
\* error) exactly when its status is 429 or 503
C13_Applied ==
    (IsGet /\ Answered /\ ~lastResp.err)
        => (lastResp.status \in {429, 503}
               <=> reqResult \notin {"ok", "unexpected status",
                                     "failed to decode response"})

\* C13: ShouldRetry(status) is true exactly for 429 and 503 and false for every
\* other status code, 500, 502, 504, 200 and 404 included.
C13_ShouldRetryExactly == C13_Classifier /\ C13_Applied

\* a GET answered 502 has failed at once, one answered 429 waits
C13_Witness ==
    /\ IsGet
    /\ ~lastResp.err
    /\ \/ lastResp.status = 502 /\ reqResult = "unexpected status" /\ bAttempts = 0
       \/ lastResp.status = 429 /\ reqPc = "backoff"

\* b.Wait of the GET is blocking
InWait == reqPc = "backoff"

\* while Wait blocks, NextDelay has advanced b.attempts by one and the timer
\* runs for the delay of the attempt; true was returned with the timer fired,
\* false with the context cancelled, and then the GET returned ctx.Err() with
\* no HTTP attempt after the one that led to the Wait
C38_WaitState ==
    /\ InWait =>
          /\ bWaited = "pending"
          /\ bAttempts = bIndex + 1
          /\ \E r \in JitterDraws : bDelay = DelayOf(bCfg, bIndex, r)
          /\ waitLog[Len(waitLog)] = [index |-> bIndex, delay |-> bDelay]
          /\ ctxDone => ENABLED GetBackoffCancelled
    /\ bWaited = "true" => bTimer
    /\ bWaited = "false" =>
          /\ ctxDone
          /\ reqPc = "done"
          /\ reqResult = "context canceled"
          /\ httpAttempts = Len(waitLog)

\* the return of Wait: the counter stays advanced by one; a Wait whose context
\* is cancelled before its timer has fired returns false, the delay not waited
\* out
C38_WaitReturn ==
    (InWait /\ reqPc' # "backoff") =>
        /\ bWaited' \in {"true", "false"}
        /\ bAttempts' = bAttempts
        /\ httpAttempts' = httpAttempts
        /\ (ctxDone /\ ~bTimer) => (bWaited' = "false" /\ ~bTimer')

\* C38: Backoff.Wait blocks for the delay of the current attempt and advances
\* the attempt counter by one, returning true when the delay elapses; if the
\* context is cancelled before the delay elapses it returns false without
\* waiting out the delay, and a GET whose backoff wait is cancelled returns
\* the context error without making another HTTP attempt.
C38_BackoffWait == [](C38_WaitState) /\ [][C38_WaitReturn]_vars

\* the first Wait of a GET returned true; its second Wait was cancelled before
\* its timer fired and the GET returned the context error after two attempts
C38_Witness ==
    /\ bWaited = "false"
    /\ ~bTimer
    /\ reqResult = "context canceled"
    /\ Len(waitLog) = 2
    /\ httpAttempts = 2

----------------------------------------------------------------------------
(* Claims about Backoff, checked under SpecBackoff *)

DelayReturned == bOp \in {"NextDelay", "Wait"}

\* a new or reset Backoff stands at attempt 0, and a delay computed at attempt 0
\* is the initial delay
C14_AtZero ==
    /\ bOp \in {"New", "Reset"} => bAttempts = 0
    /\ (DelayReturned /\ bIndex = 0) => bDelay = bCfg.initialDelay

\* the NextDelay that follows New or Reset returns the initial delay
C14_FirstCall ==
    (bOp \in {"New", "Reset"} /\ bAttempts' = bAttempts + 1)
        => (bIndex' = 0 /\ bDelay' = bCfg.initialDelay)

\* C14: the first NextDelay of a new Backoff returns exactly initial_delay, with
\* no jitter; after Reset, whatever NextDelay and Wait calls came before, the
\* attempt counter is 0 and the next NextDelay again returns exactly
\* initial_delay.
C14_InitialDelayExact == [](C14_AtZero) /\ [][C14_FirstCall]_vars

\* a Backoff reset after three calls has returned the initial delay again
C14_Witness ==
    /\ bResetFrom = 3
    /\ DelayReturned
    /\ bIndex = 0
    /\ bAttempts = 1
    /\ bDelay = bCfg.initialDelay

\* initial_delay * multiplier^n
Nominal(cfg, n) == cfg.initialDelay * Pow(cfg.multiplier, n)

\* (1 - f) and (1 + f) times the nominal delay, clamped to max_delay
LowestDelay(cfg, n) ==
    Min(((1000 - cfg.jitterFactor) * Nominal(cfg, n)) \div 1000, cfg.maxDelay)
HighestDelay(cfg, n) ==
    Min(((1000 + cfg.jitterFactor) * Nominal(cfg, n)) \div 1000, cfg.maxDelay)

\* C15: for every attempt index n >= 1 and every jitter draw NextDelay returns
\* a value between (1-f)*initial_delay*multiplier^n and
\* (1+f)*initial_delay*multiplier^n, clamped to max_delay; no delay returned for
\* any attempt exceeds max_delay; each NextDelay call increases the attempt
\* counter by exactly one.
C15_DelayBounds ==
    DelayReturned =>
        /\ bIndex >= 1 =>
              /\ LowestDelay(bCfg, bIndex) <= bDelay
              /\ bDelay <= HighestDelay(bCfg, bIndex)
        /\ bDelay <= bCfg.maxDelay
        /\ bAttempts = bIndex + 1

\* the default Backoff has returned a jittered delay below the cap at attempt 8
\* (nominal 25.6 s)
C15_Witness ==
    /\ DelayReturned
    /\ bCfg = DefaultConfig
    /\ bIndex = 8
    /\ bDelay = 28160
    /\ bAttempts = 9

----------------------------------------------------------------------------
(* Claims about the worker pool, checked under SpecPool *)

Processing == {w \in Workers : wPc[w] = "processing"}
SubmitBlocked == prodPc = "submit" /\ Len(jobChan) = 2 * PoolSize

\* neither channel holds more than 2N entries, at most N jobs are in process
C16_Bounded ==
    /\ Len(jobChan) <= 2 * PoolSize
    /\ Len(resultChan) <= 2 * PoolSize
    /\ Cardinality(Processing) <= PoolSize

\* a Submit facing a full intake does not complete; the intake changes only by
\* a worker taking its head
C16_SubmitWaits ==
    SubmitBlocked =>
        /\ prodPc' = "submit"
        /\ nextJob' = nextJob
        /\ jobChan' \in {jobChan, Tail(jobChan)}

\* C16: with N workers the intake channel never holds more than 2N jobs and
\* the result channel never more than 2N results, at most N jobs are being
\* processed at once, and a Submit issued while the intake holds 2N jobs blocks
\* until a worker dequeues one.
C16_BackPressure == [](C16_Bounded) /\ [][C16_SubmitWaits]_vars

\* runLoop is blocked in Submit: the intake is full and every worker is busy
C16_Witness ==
    /\ SubmitBlocked
    /\ ~jobClosed
    /\ Processing = Workers

\* C17: WorkerPool.Stop closes the intake channel first, then waits until every
\* worker has exited, and only then closes the result channel: no worker sends
\* a result on a closed result channel, and once the result channel is closed
\* no worker is still running.
C17_StopOrder ==
    /\ panicWhy # "send on closed channel: resultChan"
    /\ stopPc = "waitWorkers" => (jobClosed /\ ~resultClosed)
    /\ resultClosed => (jobClosed /\ \A w \in Workers : wPc[w] = "exited")

\* Stop has closed the result channel with a delivered result still buffered
C17_Witness ==
    /\ resultClosed
    /\ resultChan # <<>>
    /\ \A w \in Workers : wPc[w] = "exited"

\* C18: when the root context is cancelled at any point (jobs in flight, the
\* tick loop fanning out) and Monitor.Stop is then called, Stop returns with
\* every worker, the tick loop and the result consumer terminated: no goroutine
\* is left blocked and the process does not crash.
C18_GracefulStop == stopAfterCancel => panicWhy = "none"

\* C19: after the root context has been cancelled no worker begins processing
\* another job, even when jobs are still queued in the intake channel.
C19_NoJobAfterCancel == ~startedAfterCancel

\* C31: no job is ever sent on the intake channel after or while it is being
\* closed: with the root context cancelled and Monitor.Stop called, in every
\* interleaving with the tick loop, the tick loop is neither blocked in Submit
\* nor about to call Submit once Stop has closed the job channel, and no send
\* on the closed job channel occurs.
C31_NoSendOnClosedIntake ==
    (stopAfterCancel /\ jobClosed) =>
        /\ prodPc # "submit"
        /\ panicWhy # "send on closed channel: jobChan"

InIntake(j) == Cardinality({i \in DOMAIN jobChan : jobChan[i] = j})
HeldBy(j) == {w \in Workers : wJob[w] = j}
InResults(j) == Cardinality({i \in DOMAIN resultChan : resultChan[i].job = j})
Accepted(j) == j < nextJob

C33_Accounting ==
    \A j \in 1..MaxJobs :
        LET h == jobHist[j] IN
        /\ ~Accepted(j) => h.recv = 0
        /\ h.recv <= 1 /\ Cardinality(HeldBy(j)) <= 1
        /\ h.proc <= h.recv
        /\ h.sent + h.dropped <= h.proc
        /\ h.cons <= h.sent
        /\ h.dropped > 0 => ctxDone
        /\ Accepted(j) =>
               InIntake(j) + Cardinality(HeldBy(j)) + InResults(j) + h.cons
                   + h.dropped = 1

\* C33: every job accepted by Submit is received by exactly one worker,
\* processed exactly once and produces exactly one Result, which the result
\* consumer eventually receives while the root context is not cancelled; a
\* result is dropped only when the root context is cancelled.
C33_ExactlyOnce ==
    /\ []C33_Accounting
    /\ <>[](ctxDone \/ \A j \in 1..MaxJobs : Accepted(j) => jobHist[j].cons = 1)

\* a job went all the way to processResults, the context still live, the next
\* one is on its way
C33_Witness ==
    /\ ~ctxDone
    /\ jobHist[1].cons = 1 /\ jobHist[1].proc = 1
    /\ Accepted(2) /\ jobHist[2].cons = 0

InDrained(j) == Cardinality({i \in DOMAIN drained : drained[i].job = j})

\* the result channel is closed, without a cancellation, only after every
\* worker has exited and every accepted job was processed once and its result
\* sent once
C40_ProcessedBeforeClose ==
    (resultClosed /\ ~ctxDone) =>
        /\ WorkersDone
        /\ \A j \in 1..MaxJobs :
               Accepted(j) => /\ InIntake(j) = 0
                              /\ jobHist[j].proc = 1
                              /\ jobHist[j].sent = 1
                              /\ jobHist[j].cons + InResults(j) + InDrained(j) = 1

\* a Drain that has returned left the closed channel empty: each result that
\* was buffered when it was called is in its slice, unless processResults took it
C40_DrainedAll ==
    drainPc = "returned" =>
        /\ resultClosed /\ resultChan = <<>>
        /\ \A i \in DOMAIN drainFrom :
               jobHist[drainFrom[i].job].cons + InDrained(drainFrom[i].job) = 1
        /\ drainAlone => drained = drainFrom

\* C40: after a Stop without cancellation every accepted job is processed and
\* its result delivered before the workers exit and the result channel is
\* closed; a later Drain returns every result still buffered and terminates
C40_StopThenDrain ==
    /\ [](C40_ProcessedBeforeClose /\ C40_DrainedAll)
    /\ (drainPc = "run") ~> (drainPc = "returned" \/ ~Running)

C40_Witness ==
    /\ ~ctxDone /\ ~stopAfterCancel
    /\ drainPc = "returned"
    /\ Accepted(2) /\ jobHist[1].sent = 1 /\ jobHist[2].sent = 1
    /\ InDrained(2) = 1

----------------------------------------------------------------------------
(* More claims about Scheduler.NextEvents, checked under SpecSched *)

BoundaryDue == tickSlot % SlotsPerEpoch = 0 /\ SlotToEpoch(tickSlot) # prevEpoch
EpochsOf(evs) == {evs[i].epoch : i \in DOMAIN evs}

\* a call whose finality lookup failed returned SLOT_POLL first, EPOCH_BOUNDARY
\* exactly when due, no EPOCH_FINALIZED, and left last_finalized_epoch alone
C20_FailedLookup ==
    (Called /\ finResp.err) =>
        /\ tickEvents[1] = SlotPollEvent(tickSlot)
        /\ BoundaryOfTick = (IF BoundaryDue THEN <<BoundaryEvent(tickSlot)>> ELSE <<>>)
        /\ FinalizedOfTick = <<>>
        /\ Len(tickEvents) = 1 + Len(BoundaryOfTick)
        /\ lastFinalEpoch = prevFinal

\* the call after a failed lookup, its own lookup succeeding, emits every epoch
\* above the last_finalized_epoch the failed call left
C20_NextTickCatchesUp ==
    (Called /\ finResp.err /\ ~finResp'.err)
        => EpochsOf(EventsOfType(tickEvents', "EPOCH_FINALIZED"))
              = (prevFinal + 1)..finResp'.epoch

\* C20: when the finality lookup fails during NextEvents the tick is not
\* aborted: NextEvents returns no error, still returns the SLOT_POLL event (and
\* the EPOCH_BOUNDARY event if due), returns no EPOCH_FINALIZED event and
\* leaves last_finalized_epoch unchanged, so the skipped epochs are emitted by
\* the next tick whose lookup succeeds.
C20_LookupFailure == [](C20_FailedLookup) /\ [][C20_NextTickCatchesUp]_vars

\* a failed lookup at a due epoch boundary, with epochs finalized earlier
C20_Witness ==
    /\ Called /\ finResp.err
    /\ BoundaryDue
    /\ Len(tickEvents) = 2
    /\ prevFinal >= 1
    /\ lastFinalEpoch = prevFinal

\* C34: over a whole run at most one EPOCH_FINALIZED event, and so at most one
\* REWARDS job, is emitted for any given epoch, whatever the sequence of
\* finality responses (repeated, decreasing and failing ones included); the
\* epochs announced so far are exactly 1..lastFinalEpoch.
C34_OneFinalizedPerEpoch ==
    \A e \in 0..MaxFinalized :
        /\ finalizedCount[e] <= 1
        /\ rewardsCount[e] = finalizedCount[e]
        /\ finalizedCount[e] = 1 <=> (1 <= e /\ e <= lastFinalEpoch)

\* the node's answer fell back below the epochs already announced: nothing is
\* announced again
C34_Witness ==
    /\ ~finResp.err
    /\ finResp.epoch < prevFinal
    /\ prevFinal >= 2
    /\ lastFinalEpoch = prevFinal
    /\ \A e \in 1..prevFinal : finalizedCount[e] = 1 /\ rewardsCount[e] = 1

\* the first NextEvents call of a run (last_finalized_epoch is 0, the node
\* reports finalized epoch F) announces no epoch below F and builds no REWARDS
\* job for one: those epochs were final before the monitor started
C35_FirstTick ==
    (tickEvents = <<>> /\ lastFinalEpoch = 0 /\ ~finResp'.err) =>
        \A e \in 0..MaxFinalized :
            e < finResp'.epoch =>
                /\ FinalizedOf(tickEvents', e) = <<>>
                /\ RewardsJobsOf(tickEvents', e) = <<>>

\* C35: the monitor does no back-filling at startup: on the first tick after
\* startup (last_finalized_epoch = 0) with the node reporting finalized epoch
\* F, no EPOCH_FINALIZED events or REWARDS jobs are generated for epochs that
\* were already finalized before the monitor started.
C35_NoBackfillAtStartup == [][C35_FirstTick]_vars

----------------------------------------------------------------------------
(* Claims about Monitor.Process and the repository, checked under SpecJobs *)

\* the latest Process call has returned and its fetch had succeeded
ReturnedAfterFetch == pjPc = "idle" /\ pjRet.type # "none" /\ pjRet.fetched

\* C21: a STATUS, DUTIES or REWARDS job whose fetch succeeded returns a nil
\* error and the snapshot, duty list or reward list it constructed, whether
\* the repository calls of the job succeeded or returned an error.
C21_WriteFailureNeverFailsJob ==
    ReturnedAfterFetch =>
        /\ pjRet.type \in {"STATUS", "DUTIES", "REWARDS"}
        /\ ~pjRet.err
        /\ pjRet.obj = pjObj

\* a job of each type returned after a repository call of it had failed; the
\* REWARDS job lost a penalty write
C21_Witness ==
    /\ ReturnedAfterFetch
    /\ ~pjRet.wrote
    /\ pjRet.type = "REWARDS"
    /\ pjPens # <<>>
    /\ penTbl = {}
    /\ rewardTbl # {}

\* the rewards of a REWARDS job whose fetch succeeded are constructed
RewardsConstructed == pjJob.type = "REWARDS" /\ pjFetched

\* C22: every AttestationReward a REWARDS job constructs and every row it
\* persists has total_reward = head_reward + source_reward + target_reward,
\* its three components copied unchanged from the Beacon response, and the
\* epoch of the job.
C22_RewardRows ==
    /\ RewardsConstructed =>
          /\ Len(pjObj) = Len(pjData)
          /\ \A i \in 1..Len(pjObj) :
                /\ pjObj[i].validator_index = pjData[i].validator_index
                /\ pjObj[i].head_reward = pjData[i].head
                /\ pjObj[i].source_reward = pjData[i].source
                /\ pjObj[i].target_reward = pjData[i].target
                /\ pjObj[i].total_reward
                     = pjData[i].head + pjData[i].source + pjData[i].target
                /\ pjObj[i].epoch = pjJob.epoch
          /\ \A r \in rewardTbl :
                r.timestamp = pjRuns => \E i \in 1..Len(pjObj) : r = pjObj[i]
    /\ \A r \in rewardTbl :
          r.total_reward = r.head_reward + r.source_reward + r.target_reward

\* a REWARDS job has persisted a reward with a negative total next to a reward
\* with a positive total
C22_Witness ==
    /\ RewardsConstructed
    /\ pjPc = "idle"
    /\ \E r, q \in rewardTbl :
          /\ r.total_reward < 0
          /\ q.total_reward > 0
          /\ r.timestamp = pjRuns
          /\ q.timestamp = pjRuns

\* the attestation_miss penalties and the negative rewards of validator v at
\* epoch e in the store
MissPenalties(v, e) ==
    {p \in penTbl : /\ p.validator_index = v
                    /\ p.epoch = e
                    /\ p.penalty_type = "attestation_miss"}

NegativeRewards(v, e) ==
    {r \in rewardTbl : r.validator_index = v /\ r.epoch = e /\ r.total_reward < 0}

\* C23: between REWARDS jobs, whatever writes of them failed, the store holds
\* an attestation_miss penalty for (validator, epoch) exactly when it holds a
\* reward row with a negative total for the same key, and the penalty's
\* penalty_gwei is the negated total.
C23_PenaltyIffNegativeReward ==
    pjPc = "idle" =>
        \A i \in 1..NumValidators, e \in 1..2 :
            /\ MissPenalties(Validators[i], e) # {}
                  <=> NegativeRewards(Validators[i], e) # {}
            /\ \A p \in MissPenalties(Validators[i], e) :
                  \A r \in NegativeRewards(Validators[i], e) :
                      p.penalty_gwei = 0 - r.total_reward

\* the total of entry i of the response of the REWARDS job, and the penalties
\* the job constructed for the validator of that entry
EntryTotal(i) == pjData[i].head + pjData[i].source + pjData[i].target
PenaltiesFor(i) ==
    {k \in DOMAIN pjPens : pjPens[k].validator_index = pjData[i].validator_index}

\* C36: a REWARDS job constructs, for every response entry with total < 0,
\* exactly one ValidatorPenalty with penalty_type = attestation_miss,
\* penalty_gwei = -total (strictly positive), the epoch and the slot of the
\* job, and no penalty for an entry with total >= 0; the duty_success of the
\* entry's reward log line is true exactly when total >= 0.
C36_PenaltiesAndDutySuccess ==
    /\ RewardsConstructed =>
          \A i \in DOMAIN pjData :
              IF EntryTotal(i) < 0
              THEN /\ Cardinality(PenaltiesFor(i)) = 1
                   /\ \A k \in PenaltiesFor(i) :
                         /\ pjPens[k].penalty_type = "attestation_miss"
                         /\ pjPens[k].penalty_gwei = 0 - EntryTotal(i)
                         /\ pjPens[k].penalty_gwei > 0
                         /\ pjPens[k].epoch = pjJob.epoch
                         /\ pjPens[k].slot = pjJob.slot
              ELSE PenaltiesFor(i) = {}
    /\ (RewardsConstructed /\ pjPc = "idle") =>
          /\ Len(pjLog) = Len(pjData)
          /\ \A i \in DOMAIN pjData :
                /\ pjLog[i].msg = "attestation_reward"
                /\ pjLog[i].validator_index = pjData[i].validator_index
                /\ pjLog[i].duty_success <=> EntryTotal(i) >= 0

\* a REWARDS job has returned and been logged: one entry of its response had
\* a total of zero (no penalty, duty_success), the other a negative total
\* (one penalty, no duty_success)
C36_Witness ==
    /\ RewardsConstructed
    /\ pjPc = "idle"
    /\ Len(pjData) = 2
    /\ EntryTotal(1) = 0 /\ pjLog[1].duty_success
    /\ EntryTotal(2) < 0 /\ ~pjLog[2].duty_success
    /\ Len(pjPens) = 1

----------------------------------------------------------------------------
(* Claims about failing jobs and the order of results, checked under *)
(* SpecResults                                                       *)

\* C25: a failing job stops neither its worker nor processResults: the worker
\* goes from Process to the send of a Result that carries the job and its
\* error, then back to its receive; a worker and processResults end only with
\* the root context cancelled.
C25_FailureStopsNobody ==
    [][/\ \A w \in Workers :
            /\ (wPc[w] = "processing" /\ wPc'[w] # "processing")
                  => wPc'[w] = "sending"
            /\ (wPc[w] = "sending" /\ wPc'[w] # "sending" /\ ~ctxDone)
                  => /\ wPc'[w] = "idle"
                     /\ resultChan' # <<>>
                     /\ resultChan'[Len(resultChan')].job = wJob[w]
                     /\ resultChan'[Len(resultChan')].err = wErr[w]
            /\ (wPc[w] # "exited" /\ wPc'[w] = "exited") => ctxDone
       /\ (consPc = "run" /\ consPc' # "run") => ctxDone]_vars

\* processResults, still running, has received the failed result of a
\* worker's job, and that worker is processing its next job
C25_Witness ==
    /\ consErr
    /\ consPc = "run"
    /\ ~ctxDone
    /\ \E w \in Workers :
          /\ wPc[w] = "processing"
          /\ wRecv[w] >= 2
          /\ delivered[w] = wRecv[w] - 1

\* the result of the job that worker w received as its n-th is in the result
\* channel or has been received from it
Published(w, n) ==
    \/ delivered[w] >= n
    \/ \E i \in 1..Len(resultChan) :
          resultChan[i].worker = w /\ resultChan[i].seq = n

----------------------------------------------------------------------------
(* Claims about the scheduler's clock and Monitor.Start, checked under *)
(* SpecClock                                                           *)

\* the slots the clock of SpecClock can reach
ClockSlots == 0..(MaxClock \div SlotDuration)

\* C26: with the genesis time G, CurrentSlot returns s at every time
\* G + s*12s + d with 0 <= d < 12s and 0 at every time before G, and
\* SlotTime(s) is G + s*12s.
C26_CurrentSlot ==
    started = "running" =>
        /\ now < genesisTime => CurrentSlot = 0
        /\ \A s \in ClockSlots, d \in 0..(SlotDuration - 1) :
              now = genesisTime + s * SlotDuration + d => CurrentSlot = s
        /\ \A s \in ClockSlots : SlotTime(s) = genesisTime + s * SlotDuration

\* the clock stands 5 s into slot 1 of a chain whose genesis is not at time 0
C26_Witness ==
    /\ started = "running"
    /\ genesisTime = 2 * SlotDuration + 7
    /\ now = genesisTime + SlotDuration + 5
    /\ CurrentSlot = 1

\* C27: WaitForSlotInterval with k = intervalSlots computes its target as the
\* current slot at the call plus k (slot k when called before genesis); when
\* it returns the target the clock is at or past the start of the target
\* slot; it ends a sleep before that time only with the context cancelled,
\* and then with an error.
C27_WaitForSlotInterval ==
    [][/\ (loopPc = "wait" /\ loopPc' # "wait")
            => /\ targetSlot' = CurrentSlot + intervalSlots
               /\ now < genesisTime => targetSlot' = intervalSlots
       /\ (loopPc # "events" /\ loopPc' = "events")
            => /\ targetSlot' = SlotAt(waitFrom', genesisTime) + intervalSlots
               /\ now' >= genesisTime + targetSlot' * SlotDuration
       /\ (/\ loopPc = "sleep"
           /\ loopPc' # "sleep"
           /\ now < genesisTime + targetSlot * SlotDuration)
            => ctxDone /\ loopPc' = "done"]_vars

\* called before genesis with k = 1, WaitForSlotInterval has returned slot 1
\* at the start of slot 1
C27_Witness ==
    /\ loopPc = "events"
    /\ intervalSlots = 1
    /\ waitFrom < genesisTime
    /\ targetSlot = 1
    /\ now = genesisTime + SlotDuration

\* the primary key of the snapshot row the STATUS job of validator number i
\* at the tick of slot s writes
StatusKey(s, i) ==
    SnapshotKey(SnapshotOf(JobOf(SlotPollEvent(s), i),
                           CHOOSE v \in ValidatorStates : TRUE, 0))

\* C39: the slots successive WaitForSlotInterval calls return to the tick loop
\* are strictly increasing, each at least k = intervalSlots above the
\* previous one, so no two SLOT_POLL events of a run share a slot and no two
\* STATUS jobs of a run target the same (validator_index, slot) primary key.
C39_TickSlotsIncrease ==
    /\ \A n \in 1..(Len(tickSlots) - 1) :
          tickSlots[n + 1] >= tickSlots[n] + intervalSlots
    /\ (loopPc = "events" /\ tickSlots # <<>>)
          => targetSlot >= tickSlots[Len(tickSlots)] + intervalSlots
    /\ \A m, n \in DOMAIN tickSlots :
          /\ m < n => tickSlots[m] < tickSlots[n]
          /\ m # n => SlotPollEvent(tickSlots[m]).slot # SlotPollEvent(tickSlots[n]).slot
          /\ \A i, j \in 1..NumValidators :
                (m # n \/ i # j) => StatusKey(tickSlots[m], i) # StatusKey(tickSlots[n], j)

\* with k = 1 the tick of slot 1 took more than a slot: the next tick is that
\* of slot 3
C39_Witness ==
    /\ intervalSlots = 1
    /\ tickSlots = <<1, 3>>

\* C30: Monitor.Start fails only when the genesis fetch fails, and then no
\* worker, tick loop or result consumer is launched; with the genesis fetched
\* it launches the workers, processResults and runLoop and returns nil, also
\* when the sync check failed or reported is_syncing = true.
C30_StartFailsOnlyOnGenesis ==
    /\ started = "failed"
          => /\ genesisResp.err
             /\ liveWorkers = 0
             /\ loopPc = "off"
             /\ consPc = "none"
    /\ started = "running"
          => /\ ~genesisResp.err
             /\ liveWorkers = PoolSize
             /\ loopPc # "off"
             /\ consPc = "run"

\* the monitor runs, its tick loop asleep, after a sync check that failed
C30_Witness ==
    /\ started = "running"
    /\ syncResp = "error"
    /\ loopPc = "sleep"
    /\ liveWorkers = PoolSize

----------------------------------------------------------------------------
(* Claims about the repository's writes, checked under SpecStore *)

TableOf(name) ==
    CASE name = "validator_snapshots" -> snapTbl
      [] name = "attestation_duties" -> dutyTbl
      [] name = "attestation_rewards" -> rewardTbl

SameKey(o, p) ==
    /\ StoreObjects[o].table = StoreObjects[p].table
    /\ PrimaryKey(StoreObjects[o].table, StoreObjects[o].row)
         = PrimaryKey(StoreObjects[p].table, StoreObjects[p].row)

\* the saves of object o, as positions of saveLog
SavesOf(o) == {i \in 1..Len(saveLog) : saveLog[i] = o}

\* object o was the last one written under its primary key
WroteLast(o) ==
    /\ SavesOf(o) # {}
    /\ \A i \in 1..Len(saveLog) :
          SameKey(saveLog[i], o) => \E j \in SavesOf(o) : j >= i

\* the row the first save of object o wrote
FirstRow(o) ==
    LET first == CHOOSE i \in SavesOf(o) : \A j \in SavesOf(o) : i <= j
        given == StoreObjects[o].row.timestamp
    IN  [StoreObjects[o].row EXCEPT !.timestamp = Stamp(given, StoreTime(first))]

\* C29: writes are idempotent by primary key: however often an object was
\* saved, and whatever was written between its saves, after a save of it the
\* table holds exactly one row with its primary key, and that row is the row
\* its first save wrote.
C29_IdempotentWrites ==
    \A o \in DOMAIN StoreObjects :
        WroteLast(o) =>
            {x \in TableOf(StoreObjects[o].table) :
                PrimaryKey(StoreObjects[o].table, x)
                  = PrimaryKey(StoreObjects[o].table, StoreObjects[o].row)}
              = {FirstRow(o)}

\* a snapshot with the zero Timestamp was saved, a different snapshot with the
\* same primary key was saved over it, and the first was saved again
C29_Witness ==
    /\ Len(saveLog) = 3
    /\ saveLog[1] = saveLog[3]
    /\ saveLog[2] # saveLog[1]
    /\ SameKey(saveLog[1], saveLog[2])
    /\ StoreObjects[saveLog[1]].row.timestamp = 0
    /\ snapTbl # {}

====
